---- MODULE Spec2Model ----
(***************************************************************************)
(* Order acquisition and deduplication pipeline of XcondoAutoPrinter       *)
(* (src/src/api.js): the vendor-ownership verifier, the processed-order    *)
(* ledger, the multi-strategy fetch chain and the polling listener.        *)
(*                                                                         *)
(* JavaScript strings are sequences of one-character strings, so that      *)
(* trim() and toString() are computed and not assumed.  JavaScript values  *)
(* that may be a number, a string or null/undefined are tagged records.    *)
(***************************************************************************)
EXTENDS Integers, Sequences, FiniteSets, Bags

VARIABLES
  remote,           \* what the remote commerce API currently answers
  config,           \* the stored configuration a start call is given a copy of
  isListening,      \* let isListening
  intervalId,       \* let intervalId (0 is null)
  timers,           \* the interval timers armed in the event loop, with their closures
  resolving,        \* startOrderListener calls suspended in getVendorIdFromCredentials
  processedOrders,  \* global.processedOrders, a Set in insertion order
  stateFile,        \* data/processed_orders.json
  cycles,           \* checkForNewOrders calls suspended at an await
  lastBatch,        \* what the cycle that has just finished did (history)
  calls,            \* onOrder invocations per order id since the ledger was last replaced (history)
  loaded,           \* ids read from the file by the latest loadProcessedOrdersState (history)
  lastStart,        \* what the start call that has just run did (history)
  verifier,         \* input and result of a stand-alone orderBelongsToVendor call
  resolver,         \* a stand-alone getVendorIdFromCredentials call and where it waits
  roundTrip,        \* a ledger and the text of its file under stand-alone save and load calls
  app,              \* main.js: isRunning, a handleSaveConfig that awaits, the last call (history)
  details           \* a stand-alone getOrderDetails call: its arguments, its request, its end

vars ==
  <<remote, config, isListening, intervalId, timers, resolving, processedOrders, stateFile,
    cycles, lastBatch, calls, loaded, lastStart, verifier, resolver, roundTrip, app,
    details>>

(***************************************************************************)
(* Bounds of the model                                                     *)
(***************************************************************************)
\* longest answer of the remote API, in orders
MaxBatch == 2
\* polling cycles that may be in flight (awaiting a remote call) at once
MaxCycles == 2
\* startOrderListener calls that may be awaiting vendor-id auto-detection
MaxResolving == 1
\* calls of startOrderListener that await the resolver at once, where the
\* calls may overlap
MaxOverlap == 2
\* malformed or foreign meta entries placed in front of a meta_data list
MaxDecoys == 1
\* interval timers that may be armed at once (a leaked timer keeps ticking)
MaxTimers == 2
\* how far below the pruning threshold a long persisted history may start
PruneWindow == 1

(***************************************************************************)
(* Program constants                                                       *)
(***************************************************************************)
\* if (global.processedOrders.size > 1000)
PruneThreshold == 1000
\* ordersArray.slice(-500)
PruneKeep == 500

(***************************************************************************)
(* JavaScript values                                                       *)
(***************************************************************************)
Null == [t |-> "null", n |-> 0, s |-> << >>]
Num(k) == [t |-> "num", n |-> k, s |-> << >>]
Str(chars) == [t |-> "str", n |-> 0, s |-> chars]

\* JavaScript truthiness: null, undefined, 0 and "" are falsy
Truthy(v) ==
  CASE v.t = "num" -> v.n # 0
    [] v.t = "str" -> v.s # << >>
    [] OTHER -> FALSE

Digit(d) == <<"0", "1", "2", "3", "4", "5", "6", "7", "8", "9">>[d + 1]

RECURSIVE NatToString(_)
NatToString(k) ==
  IF k < 10 THEN <<Digit(k)>> ELSE NatToString(k \div 10) \o <<Digit(k % 10)>>

\* value.toString() of a non-null value (a null value throws before this)
toString(v) == IF v.t = "num" THEN NatToString(v.n) ELSE v.s

IsSpace(c) == c = " "

RECURSIVE TrimLeft(_)
TrimLeft(s) ==
  IF s # << >> /\ IsSpace(Head(s)) THEN TrimLeft(Tail(s)) ELSE s

RECURSIVE TrimRight(_)
TrimRight(s) ==
  IF s # << >> /\ IsSpace(s[Len(s)]) THEN TrimRight(SubSeq(s, 1, Len(s) - 1)) ELSE s

\* String.prototype.trim
Trim(s) == TrimRight(TrimLeft(s))

(***************************************************************************)
(* Orders                                                                  *)
(***************************************************************************)
\* an absent or non-array meta_data / line_items property
NoArray == [isArray |-> FALSE, list |-> << >>]
Array(l) == [isArray |-> TRUE, list |-> l]

\* one meta_data entry; a null entry is a malformed one
Meta(k, v) == [isNull |-> FALSE, key |-> k, value |-> v]
NullMeta == [isNull |-> TRUE, key |-> "", value |-> Null]

Item(md, vid) == [isNull |-> FALSE, meta_data |-> md, vendor_id |-> vid]

OrderMetaKeys ==
  {"_dokan_vendor_id", "dokan_vendor_id", "_vendor_id", "vendor_id", "_store_id",
   "store_owner_id"}
ItemMetaKeys == {"_dokan_vendor_id", "vendor_id", "_vendor_id"}
possibleFields == <<"store_id", "vendor_id", "seller_id", "store_owner_id", "dokan_vendor_id">>
PossibleFieldSet == {possibleFields[i] : i \in 1..Len(possibleFields)}
\* a top-level property the verifier does not look at
OtherField == "customer_id"
TopFields == PossibleFieldSet \cup {OtherField}

NoFields == [f \in TopFields |-> Null]
OneField(name, v) == [f \in TopFields |-> IF f = name THEN v ELSE Null]

NullOrder ==
  [isNull |-> TRUE, id |-> 0, status |-> "", meta_data |-> NoArray,
   line_items |-> NoArray, fields |-> NoFields]
Order(i, st, md, li, fs) ==
  [isNull |-> FALSE, id |-> i, status |-> st, meta_data |-> md, line_items |-> li,
   fields |-> fs]

(***************************************************************************)
(* Vendor-ownership verifier                                               *)
(***************************************************************************)
\* a scan that compares without String(): only a string value can match
RECURSIVE FindVendorMetaStrict(_, _, _)
FindVendorMetaStrict(list, keys, vendorIdStr) ==
  IF list = << >> THEN "none"
  ELSE LET meta == Head(list) IN
    IF meta.isNull THEN "throw"
    ELSE IF meta.key \in keys /\ meta.value.t = "str" /\ meta.value.s # << >>
            /\ meta.value.s = vendorIdStr
      THEN "found"
      ELSE FindVendorMetaStrict(Tail(list), keys, vendorIdStr)

\* Array.prototype.find over meta entries with the predicate of the code:
\* key in keys && meta.value && meta.value.toString() === vendorIdStr.
\* Reading .key of a null entry throws; the scan stops at the first match.
RECURSIVE FindVendorMeta(_, _, _)
FindVendorMeta(list, keys, vendorIdStr) ==
  IF list = << >> THEN "none"
  ELSE LET meta == Head(list) IN
    IF meta.isNull THEN "throw"
    ELSE IF meta.key \in keys /\ Truthy(meta.value) /\ toString(meta.value) = vendorIdStr
      THEN "found"
      ELSE FindVendorMeta(Tail(list), keys, vendorIdStr)

\* VERIFICACAO 2: the line items, in order
RECURSIVE CheckLineItems(_, _)
CheckLineItems(items, vendorIdStr) ==
  IF items = << >> THEN "none"
  ELSE LET item == Head(items) IN
    IF item.isNull THEN "throw"
    ELSE LET viaMeta == IF item.meta_data.isArray
                        THEN FindVendorMeta(item.meta_data.list, ItemMetaKeys, vendorIdStr)
                        ELSE "none" IN
      IF viaMeta # "none" THEN viaMeta
      ELSE IF Truthy(item.vendor_id) /\ toString(item.vendor_id) = vendorIdStr THEN "found"
      ELSE CheckLineItems(Tail(items), vendorIdStr)

\* VERIFICACAO 3: the top-level fields
CheckFields(order, vendorIdStr) ==
  IF \E i \in 1..Len(possibleFields) :
       /\ Truthy(order.fields[possibleFields[i]])
       /\ toString(order.fields[possibleFields[i]]) = vendorIdStr
  THEN "found" ELSE "none"

\* the body of the try block: "true", "false" or "throw"
OwnershipTry(order, vendorId) ==
  IF order.isNull \/ ~Truthy(vendorId) THEN "false"
  ELSE LET vendorIdStr == toString(vendorId)
           viaMeta == IF order.meta_data.isArray
                      THEN FindVendorMeta(order.meta_data.list, OrderMetaKeys, vendorIdStr)
                      ELSE "none"
           viaItems == IF order.line_items.isArray
                       THEN CheckLineItems(order.line_items.list, vendorIdStr)
                       ELSE "none"
       IN
    IF viaMeta = "found" THEN "true"
    ELSE IF viaMeta = "throw" THEN "throw"
    ELSE IF viaItems = "found" THEN "true"
    ELSE IF viaItems = "throw" THEN "throw"
    ELSE IF CheckFields(order, vendorIdStr) = "found" THEN "true"
    ELSE "false"

\* a verifier whose catch block lets the error escape
OwnershipNoCatch(order, vendorId) == OwnershipTry(order, vendorId)

\* try { ... } catch (error) { return false }
OwnershipOutcome(order, vendorId) ==
  IF OwnershipTry(order, vendorId) = "throw" THEN "false" ELSE OwnershipTry(order, vendorId)

\* a verifier that looks for a vendor key in the order's meta_data and
\* forgets to compare its value
OwnershipIgnoresValue(order, vendorId) ==
  \/ OwnershipOutcome(order, vendorId) = "true"
  \/ /\ ~order.isNull
     /\ Truthy(vendorId)
     /\ order.meta_data.isArray
     /\ \E i \in 1..Len(order.meta_data.list) :
          ~order.meta_data.list[i].isNull /\ order.meta_data.list[i].key \in OrderMetaKeys

orderBelongsToVendor(order, vendorId) == OwnershipOutcome(order, vendorId) = "true"

\* orders.filter(order => orderBelongsToVendor(order, vendorId))
FilterOwned(orders, vendorId) ==
  SelectSeq(orders, LAMBDA o : orderBelongsToVendor(o, vendorId))

\* verifyOrdersBelongToVendor: the audit log of the blocked ids reads order.id
\* of every discarded order, which throws on a null order
verifyOrdersBelongToVendor(orders, vendorId) ==
  IF ~Truthy(vendorId) THEN [thrown |-> FALSE, orders |-> << >>]
  ELSE IF \E i \in 1..Len(orders) : orders[i].isNull
    THEN [thrown |-> TRUE, orders |-> << >>]
    ELSE [thrown |-> FALSE, orders |-> FilterOwned(orders, vendorId)]

\* verifyOrdersBelongToVendor on any first argument: null, undefined and
\* whatever else is no array give []
verifyOrdersBelongToVendorOf(arg, vendorId) ==
  IF ~arg.isArray THEN [thrown |-> FALSE, orders |-> << >>]
  ELSE verifyOrdersBelongToVendor(arg.list, vendorId)

(***************************************************************************)
(* Processed-order ledger                                                  *)
(***************************************************************************)
Range(q) == {q[i] : i \in 1..Len(q)}

\* Set.prototype.add on a Set kept in insertion order
SetAdd(ids, id) == IF id \in Range(ids) THEN ids ELSE Append(ids, id)

\* new Set(array): the first occurrence of each element, in order
RECURSIVE NewSet(_)
NewSet(array) ==
  IF Cardinality(Range(array)) = Len(array) THEN array
  ELSE SetAdd(NewSet(SubSeq(array, 1, Len(array) - 1)), array[Len(array)])

\* Array.prototype.slice(-k)
SliceLast(array, k) ==
  IF Len(array) <= k THEN array ELSE SubSeq(array, Len(array) - k + 1, Len(array))

Undefined == [defined |-> FALSE, ids |-> << >>]
Ledger(ids) == [defined |-> TRUE, ids |-> ids]

MissingFile == [kind |-> "missing", orders |-> << >>]
CorruptFile == [kind |-> "corrupt", orders |-> << >>]
UnreadableFile == [kind |-> "unreadable", orders |-> << >>]
JsonFile(orders) == [kind |-> "json", orders |-> orders]

\* saveProcessedOrdersState: the file written from Array.from(global.processedOrders || [])
saveProcessedOrdersState(ledger) ==
  JsonFile(IF ledger.defined THEN ledger.ids ELSE << >>)

\* a load that starts every session with an empty ledger
loadIgnoresFile(file) == Ledger(<< >>)

\* the try block of loadProcessedOrdersState: a missing file gives the
\* empty set; readFileSync throws on a file that cannot be read and
\* JSON.parse on one that is not JSON, before anything is assigned
LoadTry(file) ==
  CASE file.kind = "missing" -> [thrown |-> FALSE, ledger |-> Ledger(<< >>)]
    [] file.kind = "json" -> [thrown |-> FALSE, ledger |-> Ledger(NewSet(file.orders))]
    [] OTHER -> [thrown |-> TRUE, ledger |-> Undefined]

\* a load that lets its exceptions escape
LoadNoCatch(file) == LoadTry(file)

\* try { ... } catch (error) { global.processedOrders = new Set(); return false }
LoadOutcome(file) ==
  IF LoadTry(file).thrown THEN [thrown |-> FALSE, ledger |-> Ledger(<< >>)]
  ELSE LoadTry(file)

\* loadProcessedOrdersState: global.processedOrders after the call
loadProcessedOrdersState(file) == LoadOutcome(file).ledger

(***************************************************************************)
(* The ledger file as text                                                 *)
(***************************************************************************)
MaxLedger == 3

\* undefined: the id of an order that has no id property
Undef == [t |-> "undef", n |-> 0, s |-> << >>]

Quote == "\""
Backslash == "\\"

\* the characters of a JSON string literal: quotes and backslashes escaped
RECURSIVE Escape(_)
Escape(s) ==
  IF s = << >> THEN << >>
  ELSE (IF Head(s) \in {Quote, Backslash} THEN <<Backslash, Head(s)>> ELSE <<Head(s)>>)
         \o Escape(Tail(s))

\* JSON.stringify of an array element: a number, a string literal, and
\* null for both null and undefined
StringifyValue(v) ==
  CASE v.t = "num" -> NatToString(v.n)
    [] v.t = "str" -> <<Quote>> \o Escape(v.s) \o <<Quote>>
    [] OTHER -> <<"n", "u", "l", "l">>

RECURSIVE StringifyElements(_)
StringifyElements(array) ==
  IF array = << >> THEN << >>
  ELSE IF Len(array) = 1 THEN StringifyValue(array[1])
  ELSE StringifyValue(Head(array)) \o <<",">> \o StringifyElements(Tail(array))

OrdersKey == <<"{", Quote, "o", "r", "d", "e", "r", "s", Quote, ":">>
LastUpdateKey == <<",", Quote, "l", "a", "s", "t", "U", "p", "d", "a", "t", "e", Quote, ":">>
\* new Date().toISOString()
Timestamp == <<"2", "0", "2", "5">>

\* JSON.stringify({ orders, lastUpdate })
JSONstringify(doc) ==
  OrdersKey \o <<"[">> \o StringifyElements(doc.orders) \o <<"]">>
    \o LastUpdateKey \o StringifyValue(Str(doc.lastUpdate)) \o <<"}">>

\* a string literal read from position i, just after its opening quote
RECURSIVE ParseString(_, _, _)
ParseString(text, i, acc) ==
  IF text[i] = Quote THEN [value |-> Str(acc), next |-> i + 1]
  ELSE IF text[i] = Backslash THEN ParseString(text, i + 2, Append(acc, text[i + 1]))
  ELSE ParseString(text, i + 1, Append(acc, text[i]))

IsDigit(c) == c \in {Digit(d) : d \in 0..9}
DigitValue(c) == CHOOSE d \in 0..9 : Digit(d) = c

RECURSIVE ParseNumber(_, _, _)
ParseNumber(text, i, acc) ==
  IF i <= Len(text) /\ IsDigit(text[i])
  THEN ParseNumber(text, i + 1, 10 * acc + DigitValue(text[i]))
  ELSE [value |-> Num(acc), next |-> i]

ParseValue(text, i) ==
  IF text[i] = Quote THEN ParseString(text, i + 1, << >>)
  ELSE IF text[i] = "n" THEN [value |-> Null, next |-> i + 4]
  ELSE ParseNumber(text, i, 0)

\* the elements of an array read from position i, just after its bracket
\* or a comma
RECURSIVE ParseElements(_, _, _)
ParseElements(text, i, acc) ==
  IF text[i] = "]" THEN acc
  ELSE LET v == ParseValue(text, i) IN
    IF text[v.next] = "," THEN ParseElements(text, v.next + 1, Append(acc, v.value))
    ELSE Append(acc, v.value)

\* JSON.parse of a document written by JSONstringify: its orders property
JSONparse(text) == [orders |-> ParseElements(text, Len(OrdersKey) + 2, << >>)]

NoText == [kind |-> "missing", text |-> << >>]
Text(chars) == [kind |-> "json", text |-> chars]

\* saveProcessedOrdersState: the characters written to the file
WrittenText(ledger) ==
  Text(JSONstringify([orders |-> IF ledger.defined THEN ledger.ids ELSE << >>,
                      lastUpdate |-> Timestamp]))

\* loadProcessedOrdersState: global.processedOrders read from the file
ReadText(file) ==
  IF file.kind = "json" THEN Ledger(NewSet(JSONparse(file.text).orders)) ELSE Ledger(<< >>)

\* a batch end that never prunes
PruneNoSlice(ledger) == ledger

\* the pruning at the end of a batch: the ledger after it
Prune(ledger) ==
  IF Len(ledger.ids) > PruneThreshold
  THEN Ledger(NewSet(SliceLast(ledger.ids, PruneKeep)))
  ELSE ledger

(***************************************************************************)
(* The remote commerce API                                                 *)
(***************************************************************************)
VendorSeven == <<"7">>
VendorNine == <<"9">>

\* an order of vendor 7, attributed in the order's meta_data
OrderA ==
  Order(1, "processing", Array(<<Meta("_dokan_vendor_id", Str(VendorSeven))>>), NoArray,
        NoFields)
\* an order of vendor 7, attributed only by a numeric top-level field
OrderB == Order(2, "processing", NoArray, NoArray, OneField("vendor_id", Num(7)))
\* an order of vendor 9
OrderC ==
  Order(3, "processing", Array(<<Meta("_dokan_vendor_id", Str(VendorNine))>>), NoArray,
        NoFields)

Catalogue == {OrderA, OrderB, OrderC}
OrderIds == {o.id : o \in Catalogue}

\* the lists of at most k orders the store may answer with: it lists orders
\* newest first (here by falling id), and may list an order twice
RECURSIVE ListsUpTo(_, _)
ListsUpTo(S, k) ==
  IF k = 0 THEN {<< >>}
  ELSE LET shorter == ListsUpTo(S, k - 1) IN
    shorter \cup
      UNION {{Append(q, x) : x \in {y \in S : \A j \in 1..(k - 1) : q[j].id >= y.id}} :
             q \in {r \in shorter : Len(r) = k - 1}}

Failure == [ok |-> FALSE, data |-> << >>]
Answer(orders) == [ok |-> TRUE, data |-> orders]
Responses == {Failure} \cup {Answer(q) : q \in ListsUpTo(Catalogue, MaxBatch)}

\* the four requests the cycle issues: the orders list with a vendor_id
\* parameter, with a meta_query, unfiltered, and the Dokan orders list
Endpoints == {"direct", "metaq", "all", "dokan"}

\* a store that may answer anything at any time
AnyRemote ==
  [stable |-> FALSE, direct |-> Failure, metaq |-> Failure, all |-> Failure,
   dokan |-> Failure]

\* the answers a request to endpoint ep may get in the current state
Answers(ep) == IF remote.stable THEN {remote[ep]} ELSE Responses

Got(r) == IF ~r.ok THEN "error" ELSE IF r.data = << >> THEN "empty" ELSE "orders"

(***************************************************************************)
(* The fetch chain of one polling cycle                                    *)
(***************************************************************************)
DokanMetaKeys == {"_dokan_vendor_id", "dokan_vendor_id"}

\* order.meta_data.some(meta => key is a Dokan key &&
\*   meta.value.toString() === config.vendorId.toString()): no truthiness
\* guard here, so a null value under a Dokan key throws
RECURSIVE SomeDokanMeta(_, _)
SomeDokanMeta(list, vendorIdStr) ==
  IF list = << >> THEN "none"
  ELSE LET meta == Head(list) IN
    IF meta.isNull THEN "throw"
    ELSE IF meta.key \in DokanMetaKeys
      THEN IF meta.value.t = "null" THEN "throw"
           ELSE IF toString(meta.value) = vendorIdStr THEN "found"
           ELSE SomeDokanMeta(Tail(list), vendorIdStr)
      ELSE SomeDokanMeta(Tail(list), vendorIdStr)

NarrowKeeps(order, vendorIdStr) ==
  IF order.isNull THEN "throw"
  ELSE IF ~order.meta_data.isArray THEN "none"
  ELSE SomeDokanMeta(order.meta_data.list, vendorIdStr)

\* the client-side filter of getWooCommerceOrders' third attempt, applied
\* with the untrimmed config.vendorId
NarrowFilter(data, vendorIdStr) ==
  IF \E i \in 1..Len(data) : NarrowKeeps(data[i], vendorIdStr) = "throw"
  THEN [thrown |-> TRUE, orders |-> << >>]
  ELSE [thrown |-> FALSE,
        orders |-> SelectSeq(data, LAMBDA o : NarrowKeeps(o, vendorIdStr) = "found")]

\* what the chain does next: await another request, hand the orders found
\* to the batch, end with nothing found, or fail
Await(pc) == [next |-> pc, orders |-> << >>, failed |-> FALSE]
Found(orders) == [next |-> "process", orders |-> orders, failed |-> FALSE]
Nothing == [next |-> "done", orders |-> << >>, failed |-> FALSE]
Failed == [next |-> "done", orders |-> << >>, failed |-> TRUE]

\* !vendorId || vendorId.trim() === ''
Blank(vendorId) == vendorId = << >> \/ Trim(vendorId) = << >>

\* the try block of getAllOrdersAndFilter, its request answered by r: a
\* blank vendor id, a failed request and a throw of the batch verifier are
\* exceptions
FetchAllTry(r, vendorId) ==
  IF Blank(vendorId) \/ ~r.ok THEN [thrown |-> TRUE, orders |-> << >>]
  ELSE verifyOrdersBelongToVendor(r.data, Str(vendorId))

\* a fetch-all-and-filter that lets its exceptions escape
FetchAllNoCatch(r, vendorId) == FetchAllTry(r, vendorId)

\* try { ... } catch (error) { return [] }
FetchAllOutcome(r, vendorId) ==
  IF FetchAllTry(r, vendorId).thrown THEN [thrown |-> FALSE, orders |-> << >>]
  ELSE FetchAllTry(r, vendorId)

\* getAllOrdersAndFilter after its request was answered: the list it returns
getAllOrdersAndFilter(r, vendorId) == FetchAllOutcome(r, vendorId).orders

\* a chain that gives up after the Dokan endpoint
AfterDokanNoFallback(orders) == IF orders # << >> THEN Found(orders) ELSE Nothing

\* a chain that asks for the unfiltered list whatever the Dokan endpoint gave
AfterDokanAlwaysFilters(orders) == Await("all")

\* checkForNewOrders after getDokanOrders returned orders
AfterDokan(orders) == IF orders # << >> THEN Found(orders) ELSE Await("all")

\* a chain that goes on to the next strategy although this one found orders
AfterWooNoShortCircuit(orders) == Await("dokan1")

\* checkForNewOrders after getWooCommerceOrders returned orders
AfterWoo(orders) == IF orders # << >> THEN Found(orders) ELSE Await("dokan1")

\* what a cycle suspended at pc does when its request is answered by r:
\* the next await, or the fetched orders, or nothing found
FetchStep(pc, vendorIdRaw, r) ==
  CASE pc = "wc1" ->
         IF r.ok /\ r.data # << >> THEN AfterWoo(r.data)
         ELSE IF vendorIdRaw # << >> /\ Trim(vendorIdRaw) # << >> THEN Await("wc2")
         ELSE Await("wc3")
    [] pc = "wc2" ->
         IF r.ok /\ r.data # << >> THEN AfterWoo(r.data) ELSE Await("wc3")
    [] pc = "wc3" ->
         IF ~r.ok THEN Await("all")
         ELSE IF r.data = << >> THEN AfterWoo(<< >>)
         ELSE LET f == NarrowFilter(r.data, vendorIdRaw) IN
           IF f.thrown THEN Await("all") ELSE AfterWoo(f.orders)
    [] pc = "dokan1" ->
         IF r.ok THEN AfterDokan(r.data) ELSE Await("dokan2")
    [] pc = "dokan2" ->
         IF r.ok THEN AfterDokan(r.data) ELSE Await("all")
    [] OTHER ->
         LET last == FetchAllOutcome(r, Trim(vendorIdRaw)) IN
           IF last.thrown THEN Failed
           ELSE IF last.orders # << >> THEN Found(last.orders) ELSE Nothing

\* the endpoint a cycle suspended at pc is waiting for
EndpointOf(pc) ==
  CASE pc = "wc1" -> "direct"
    [] pc \in {"wc2", "dokan2"} -> "metaq"
    [] pc \in {"wc3", "all"} -> "all"
    [] OTHER -> "dokan"

(***************************************************************************)
(* The batch of one polling cycle                                          *)
(***************************************************************************)
CallbackOutcomes == {"returns", "rejects", "throws"}

\* for (const order of newOrders): the last ownership check, the ledger add
\* and the call of the handler; a handler that throws ends the loop
RECURSIVE DispatchLoop(_, _, _, _, _)
DispatchLoop(newOrders, outcomes, vendorId, i, acc) ==
  IF i > Len(newOrders) THEN acc
  ELSE LET order == newOrders[i] IN
    IF orderBelongsToVendor(order, Str(vendorId))
    THEN LET after == [ids |-> SetAdd(acc.ids, order.id),
                       invoked |-> Append(acc.invoked, order),
                       thrown |-> outcomes[i] = "throws"] IN
      IF after.thrown THEN after
      ELSE DispatchLoop(newOrders, outcomes, vendorId, i + 1, after)
    ELSE DispatchLoop(newOrders, outcomes, vendorId, i + 1, acc)

\* orders.filter(order => !global.processedOrders.has(order.id))
NewOrders(orders, ids) == SelectSeq(orders, LAMBDA o : o.id \notin Range(ids))

\* lines 813-859 of checkForNewOrders on the fetched orders: the ledger and
\* the file afterwards, and what was done
ProcessBatch(vendorIdRaw, fetched, outcomes, ledger, file) ==
  LET vendorId == Trim(vendorIdRaw)
      v == verifyOrdersBelongToVendor(fetched, Str(vendorId))
      newOrders == IF v.thrown THEN << >> ELSE NewOrders(v.orders, ledger.ids)
      loop == DispatchLoop(newOrders, outcomes, vendorId, 1,
                           [ids |-> ledger.ids, invoked |-> << >>, thrown |-> FALSE])
      added == Ledger(loop.ids)
      pruned == Prune(added)
  IN
  IF fetched = << >> \/ v.thrown \/ newOrders = << >>
  THEN [ledger |-> ledger, file |-> file, newOrders |-> newOrders, invoked |-> << >>,
        thrown |-> v.thrown, saved |-> FALSE, pruned |-> FALSE, grown |-> Len(ledger.ids)]
  ELSE IF loop.thrown
  THEN [ledger |-> added, file |-> file, newOrders |-> newOrders,
        invoked |-> loop.invoked, thrown |-> TRUE, saved |-> FALSE, pruned |-> FALSE,
        grown |-> Len(added.ids)]
  ELSE [ledger |-> pruned, file |-> saveProcessedOrdersState(pruned),
        newOrders |-> newOrders, invoked |-> loop.invoked, thrown |-> FALSE,
        saved |-> TRUE, pruned |-> Len(added.ids) > PruneThreshold,
        grown |-> Len(added.ids)]

\* a cycle that starts whatever its vendor id
CycleStartsAlways(vendorIdRaw) == TRUE

\* a cycle whose exceptions reach the timer that started it
CycleNoCatch(thrown) == IF thrown THEN "rejects" ELSE "resolves"

\* the promise of checkForNewOrders: try { ... } catch (error) { log } around
\* the whole body
CycleOutcome(thrown) == "resolves"

(***************************************************************************)
(* The vendor-id resolver                                                  *)
(***************************************************************************)
\* String.prototype.toLowerCase, over the letters the model uses
Lower(c) == IF c = "A" THEN "a" ELSE IF c = "S" THEN "s" ELSE c
toLowerCase(s) == [i \in 1..Len(s) |-> Lower(s[i])]

\* String.prototype.includes
Includes(s, sub) ==
  \E i \in 1..(Len(s) + 1) :
    i + Len(sub) - 1 <= Len(s) /\ SubSeq(s, i, i + Len(sub) - 1) = sub

\* the config handed to the resolver: null, or an object whose apiUrl and
\* password may be missing
NullCredentials == [isNull |-> TRUE, apiUrl |-> FALSE, username |-> << >>, password |-> FALSE]
Credentials(url, user, pass) ==
  [isNull |-> FALSE, apiUrl |-> url, username |-> user, password |-> pass]

EmailName == <<"a", "@", "b">>
StoreName == <<"s">>

\* a config with its apiUrl, its username and its password
CompleteCredentials == Credentials(TRUE, EmailName, TRUE)

\* !config || !config.apiUrl || !config.username || !config.password
IncompleteCredentials(cfg) ==
  cfg.isNull \/ ~cfg.apiUrl \/ cfg.username = << >> \/ ~cfg.password

\* an entry of the stores list; a null entry is a malformed one, a Null id or
\* email a missing property
Vendor(id, email, name) == [isNull |-> FALSE, id |-> id, email |-> email, store_name |-> name]
NullVendor == [isNull |-> TRUE, id |-> Null, email |-> Null, store_name |-> Null]

\* an answer to a lookup: a failed request, a body that is no array, or a list
Unreachable == [ok |-> FALSE, isArray |-> FALSE, list |-> << >>, id |-> Null]
NoList == [ok |-> TRUE, isArray |-> FALSE, list |-> << >>, id |-> Null]
Listing(l) == [ok |-> TRUE, isArray |-> TRUE, list |-> l, id |-> Null]
\* the answer of users/me: an object with an id, or with none
User(id) == [ok |-> TRUE, isArray |-> FALSE, list |-> << >>, id |-> id]

\* what a step of the resolver comes to: it returns a string, goes on to
\* the lookup at pc, or throws
Return(value) == [kind |-> "return", pc |-> "returned", value |-> value, userId |-> Null]
Goto(pc, userId) == [kind |-> "next", pc |-> pc, value |-> << >>, userId |-> userId]
Throw == [kind |-> "throw", pc |-> "returned", value |-> << >>, userId |-> Null]

EmailIs(vendor, username) ==
  Truthy(vendor.email) /\ toLowerCase(toString(vendor.email)) = toLowerCase(username)
EmailIncludes(vendor, username) ==
  Truthy(vendor.email) /\ Includes(toLowerCase(toString(vendor.email)), toLowerCase(username))
StoreNameIncludes(vendor, username) ==
  Truthy(vendor.store_name)
    /\ Includes(toLowerCase(toString(vendor.store_name)), toLowerCase(username))

\* vendors.find(predicate): the first of the indexes that match, 0 for none
FindIndex(matching) ==
  IF matching = {} THEN 0 ELSE CHOOSE i \in matching : \A j \in matching : i <= j

\* the vendor matched to the username: by exact e-mail, then by part of the
\* e-mail (both only for a username with an @), then by store name
MatchedVendor(vendors, username) ==
  LET isEmail == Includes(username, <<"@">>)
      exact == IF isEmail
               THEN FindIndex({i \in 1..Len(vendors) : EmailIs(vendors[i], username)})
               ELSE 0
      partial == IF isEmail /\ exact = 0
                 THEN FindIndex({i \in 1..Len(vendors) : EmailIncludes(vendors[i], username)})
                 ELSE exact
  IN IF partial # 0 THEN partial
     ELSE FindIndex({i \in 1..Len(vendors) : StoreNameIncludes(vendors[i], username)})

\* the first try block, its request for the stores list answered by r:
\* logging a null entry throws, and so does the id of a matched vendor that
\* has none
StoresTry(cfg, r) ==
  IF ~r.ok THEN Throw
  ELSE IF ~r.isArray \/ r.list = << >> THEN Goto("me", Null)
  ELSE IF \E i \in 1..Len(r.list) : r.list[i].isNull THEN Throw
  ELSE LET m == MatchedVendor(r.list, cfg.username) IN
    IF m = 0 THEN Goto("me", Null)
    ELSE IF r.list[m].id.t = "null" THEN Throw
    ELSE Return(toString(r.list[m].id))

\* the second try block up to its inner request: users/me answered by r
MeTry(r) ==
  IF ~r.ok THEN Throw
  ELSE IF Truthy(r.id) THEN Goto("owner", r.id)
  ELSE Goto("orders", Null)

\* the innermost try block: the stores of owner userId answered by r
OwnerTry(r) ==
  IF ~r.ok THEN Throw
  ELSE IF r.list = << >> THEN Goto("fallback", Null)
  ELSE IF r.list[1].isNull \/ r.list[1].id.t = "null" THEN Throw
  ELSE Return(toString(r.list[1].id))

\* catch (storeError) and what follows it: the user id is the vendor id
OwnerOutcome(userId, r) ==
  IF OwnerTry(r).kind = "return" THEN OwnerTry(r) ELSE Return(toString(userId))

\* the keys the last lookup takes for vendor keys: three named ones and any
\* key that includes 'vendor_id'
ResolverMetaKeys == {"_dokan_vendor_id", "dokan_vendor_id", "_vendor_id", "vendor_id"}

\* the scan of one order's meta_data throws on a null entry and on a vendor
\* key without a value
MetaScanThrows(order) ==
  \/ order.isNull
  \/ /\ order.meta_data.isArray
     /\ \E i \in 1..Len(order.meta_data.list) :
          LET meta == order.meta_data.list[i] IN
            meta.isNull \/ (meta.key \in ResolverMetaKeys /\ meta.value.t = "null")

\* foundVendorIds after the scan of all orders
FoundVendorIds(orders) ==
  UNION {{toString(o.meta_data.list[i].value) :
            i \in {j \in 1..Len(o.meta_data.list) :
                     o.meta_data.list[j].key \in ResolverMetaKeys}} :
         o \in {orders[k] : k \in {n \in 1..Len(orders) : orders[n].meta_data.isArray}}}

\* the last try block, its request for recent orders answered by r
OrdersTry(r) ==
  IF ~r.ok THEN Throw
  ELSE IF r.list = << >> THEN Goto("end", Null)
  ELSE IF \E i \in 1..Len(r.list) : MetaScanThrows(r.list[i]) THEN Throw
  ELSE LET found == FoundVendorIds(r.list) IN
    IF Cardinality(found) = 1 THEN Return(CHOOSE v \in found : TRUE) ELSE Goto("end", Null)

\* catch (error) of an inner try block: log and go on with the next lookup
InnerCatch(step, pc) == IF step.kind = "throw" THEN Goto(pc, Null) ELSE step

\* the end of the function: nothing found
EndOf(step) == IF step.kind = "next" /\ step.pc = "end" THEN Return(<< >>) ELSE step

\* the function up to its first request: a null config throws at
\* config.apiUrl, incomplete credentials return ''
BeginTry(cfg) ==
  IF cfg.isNull THEN Throw
  ELSE IF ~cfg.apiUrl \/ cfg.username = << >> \/ ~cfg.password THEN Return(<< >>)
  ELSE Goto("stores", Null)

\* a resolver without its outermost catch
OuterNoCatch(step) == step

\* the outermost catch (error) { return '' }
OuterCatch(step) == IF step.kind = "throw" THEN Return(<< >>) ELSE step

\* the resolver resumed at pc with answer r
ResolverStep(pc, cfg, userId, r) ==
  CASE pc = "stores" -> OuterCatch(InnerCatch(StoresTry(cfg, r), "me"))
    [] pc = "me" -> OuterCatch(InnerCatch(MeTry(r), "orders"))
    [] pc = "owner" -> OuterCatch(OwnerOutcome(userId, r))
    [] OTHER -> OuterCatch(EndOf(InnerCatch(OrdersTry(r), "end")))

NoResult == [thrown |-> FALSE, value |-> << >>]
ResultOf(step) == [thrown |-> step.kind = "throw", value |-> step.value]

IdleResolver ==
  [pc |-> "idle", config |-> NullCredentials, userId |-> Null, heard |-> << >>,
   result |-> NoResult]

(***************************************************************************)
(* The listener                                                            *)
(***************************************************************************)
\* config.vendorId as it may be stored: unset, blank, set, set with a blank
ConfigVendorIds == {<< >>, <<" ">>, VendorSeven, <<" ">> \o VendorSeven}
\* what getVendorIdFromCredentials may resolve to
AutoVendorIds == {<< >>, VendorSeven}

\* a checkForNewOrders call suspended at an await: the vendor id of its
\* config, where it waits, the endpoints it has requested so far, and the
\* ids that other calls have handed to onOrder since it began
Suspended(pc, vendorId, asked) ==
  [pc |-> pc, vendorId |-> vendorId, asked |-> asked, seen |-> {}]

\* the calls in flight after another call handed the orders ids to onOrder
Told(inFlight, ids) ==
  LET tell(e) == [e EXCEPT !.seen = @ \cup ids]
      from(x) == {e \in BagToSet(inFlight) : tell(e) = x}
  IN [x \in {tell(e) : e \in BagToSet(inFlight)} |->
        BagCardinality([e \in from(x) |-> inFlight[e]])]

NoBatch ==
  [done |-> FALSE, vendorId |-> << >>, asked |-> << >>, fetched |-> << >>,
   grown |-> 0, newOrders |-> << >>, invoked |-> << >>, thrown |-> FALSE,
   saved |-> FALSE, pruned |-> FALSE, failed |-> FALSE, settled |-> "resolves",
   seen |-> {}]

NoCalls == [id \in OrderIds |-> 0]
CountIn(orders, id) == Cardinality({k \in 1..Len(orders) : orders[k].id = id})

IdleVerifier == [phase |-> "idle", order |-> NullOrder, vendorId |-> Null, result |-> "false"]

\* what a start call did: it returned true, returned false, threw, or awaits
\* the vendor-id resolver
NoStart == [call |-> "none", result |-> "none"]

\* a handleSaveConfig that is not under way, the last call of main.js that
\* is none, and the application before it started anything
\* no config at all
NoConfig == [vendorId |-> << >>, checkInterval |-> Undef,
             credentials |-> CompleteCredentials, printerId |-> FALSE]

NotSaving == [pending |-> FALSE, cfg |-> NoConfig, old |-> NoConfig, needsRestart |-> FALSE]
NoCall == [call |-> "none", result |-> "none", wasRunning |-> FALSE]
IdleApp == [isRunning |-> FALSE, saving |-> NotSaving, last |-> NoCall]

\* no answer to a getOrderDetails request yet
NoResponse == [ok |-> FALSE, data |-> NullOrder]

IdleDetails ==
  [phase |-> "idle", credentials |-> NullCredentials, vendorId |-> Null, orderId |-> Null,
   requests |-> 0, response |-> NoResponse, data |-> NullOrder]
Started(call, result) == [call |-> call, result |-> result]

\* a save and a load called one after the other: the ledger in memory, the
\* file, and the ledger and the file as the first save saw and left them
IdleRoundTrip ==
  [phase |-> "idle", ledger |-> Undefined, file |-> NoText, saved |-> Undefined,
   written |-> NoText]

\* clearInterval(id)
ClearInterval(armed, id) == {t \in armed : t.id # id}

\* a stop that forgets to cancel the timer
StopKeepsTimer(armed, id) == armed

\* the timers left armed by stopOrderListener
StopTimers(armed, id) == IF id # 0 THEN ClearInterval(armed, id) ELSE armed

\* the stopOrderListener of printer.js: global.processedOrders.clear()
StopLedgerCleared(ledger) == IF ledger.defined THEN Ledger(<< >>) ELSE ledger

\* the in-memory ledger left by stopOrderListener of api.js: it is saved,
\* never cleared
StopLedger(ledger) == ledger

\* the file left by stopOrderListener
StopFile(ledger, file) == IF ledger.defined THEN saveProcessedOrdersState(ledger) ELSE file

\* the guard at the top of checkForNewOrders: no cycle without a vendor id
CycleStarts(vendorIdRaw) == vendorIdRaw # << >> /\ Trim(vendorIdRaw) # << >>

\* checkForNewOrders up to its first await
BeginCycle(inFlight, vendorIdRaw) ==
  IF CycleStarts(vendorIdRaw)
  THEN inFlight (+) SetToBag({Suspended("wc1", vendorIdRaw, <<EndpointOf("wc1")>>)})
  ELSE inFlight

\* the fallback of "config.checkInterval || 60", in seconds
DefaultCheckInterval == 60

\* the factor of "(...) * 1000"
MsPerSecond == 1000

\* the longest delay a timer of the runtime accepts, in milliseconds
TimeoutMax == 2147483647

\* the value that is not a number
NaN == [t |-> "nan", n |-> 0, s |-> << >>]

\* the conversion of a value to a number, as Number(value) and the operand
\* of "*" do it: a string of digits, with or without a sign, is its
\* number, the empty string and null are 0, any other string and undefined
\* are NaN
Number(v) ==
  CASE v.t = "num" -> v
    [] v.t = "null" -> Num(0)
    [] v.t = "str" ->
         IF v.s = << >> THEN Num(0)
         ELSE IF \A i \in 1..Len(v.s) : IsDigit(v.s[i])
           THEN ParseNumber(v.s, 1, 0).value
         ELSE IF Len(v.s) > 1 /\ v.s[1] = "-" /\ \A i \in 2..Len(v.s) : IsDigit(v.s[i])
           THEN Num(0 - ParseNumber(v.s, 2, 0).value.n)
         ELSE NaN
    [] OTHER -> NaN

\* "a || b": a when a is truthy, b otherwise
Or(a, b) == IF Truthy(a) THEN a ELSE b

\* sanitizeConfigObject on checkInterval: a truthy value is replaced by its
\* number, or by 60 when that number is falsy; a falsy value is left alone
sanitizeCheckInterval(v) ==
  IF Truthy(v) THEN Or(Number(v), Num(DefaultCheckInterval)) ELSE v

\* "const intervalMs = (config.checkInterval || 60) * 1000": the fallback is
\* taken for a falsy checkInterval only
intervalMs(cfg) ==
  LET seconds == Number(Or(cfg.checkInterval, Num(DefaultCheckInterval))) IN
    IF seconds.t = "num" THEN Num(seconds.n * MsPerSecond) ELSE NaN

\* the period setInterval(handler, ms) gives its timer, in milliseconds: a
\* delay that is not a number from one millisecond to the longest delay
\* becomes one millisecond
setInterval(ms) == IF ms.t = "num" /\ ms.n >= 1 /\ ms.n <= TimeoutMax THEN ms.n ELSE 1

\* the tail of startOrderListener from "isListening = true": load the
\* ledger, run the first cycle, arm the interval timer; setInterval returns a
\* handle that no timer alive when the call began has
ListenWith(cfg, vendorIdRaw, armed, file) ==
  /\ BagCardinality(cycles) < MaxCycles
  /\ Cardinality(armed) < MaxTimers
  /\ isListening' = TRUE
  /\ stateFile' = file
  /\ lastBatch' = NoBatch
  /\ IF LoadOutcome(file).thrown
     THEN /\ timers' = armed
          /\ intervalId' = IF armed = timers THEN intervalId ELSE 0
          /\ UNCHANGED <<processedOrders, loaded, calls, cycles>>
     ELSE /\ processedOrders' = loadProcessedOrdersState(file)
          /\ loaded' = IF file.kind = "json" THEN Range(file.orders) ELSE {}
          /\ calls' = NoCalls
          /\ cycles' = BeginCycle(cycles, vendorIdRaw)
          /\ LET h == CHOOSE k \in 1..(MaxTimers + 1) : k \notin {t.id : t \in timers} IN
               /\ timers' = armed \cup {[id |-> h, vendorId |-> vendorIdRaw,
                                           period |-> setInterval(intervalMs(cfg))]}
               /\ intervalId' = h

\* the same for the config the application holds
ListenFrom(vendorIdRaw, armed, file) == ListenWith(config, vendorIdRaw, armed, file)

\* what a start that reached the load tells its caller: an exception of
\* the load would leave startOrderListener, and startMonitoringImproved
\* would answer it with false
StartedFrom(caller, file) ==
  IF ~LoadOutcome(file).thrown THEN Started(caller, "true")
  ELSE IF caller = "startMonitoringImproved" THEN Started(caller, "false")
  ELSE Started(caller, "throws")

\* startOrderListener(config, callback) with config.vendorId set, called by
\* caller: it runs to its end without suspending
StartConfigured(caller) ==
  /\ CycleStarts(config.vendorId)
  /\ IF isListening
     THEN ListenFrom(config.vendorId, StopTimers(timers, intervalId),
                     StopFile(processedOrders, stateFile))
     ELSE ListenFrom(config.vendorId, timers, stateFile)
  /\ lastStart' = StartedFrom(caller, IF isListening
                                      THEN StopFile(processedOrders, stateFile)
                                      ELSE stateFile)
  /\ UNCHANGED <<remote, config, resolving, verifier, resolver, roundTrip, app, details>>

startOrderListener == StartConfigured("startOrderListener")

\* startOrderListener with no vendor id, called by caller, up to the await
\* of getVendorIdFromCredentials, while fewer than bound calls await it
StartDetectWithin(caller, bound) ==
  /\ ~CycleStarts(config.vendorId)
  /\ resolving < bound
  /\ resolving' = resolving + 1
  /\ lastStart' = Started(caller, "awaits")
  /\ IF isListening
     THEN /\ timers' = StopTimers(timers, intervalId)
          /\ intervalId' = 0
          /\ stateFile' = StopFile(processedOrders, stateFile)
          /\ processedOrders' = StopLedger(processedOrders)
          /\ isListening' = FALSE
     ELSE UNCHANGED <<timers, intervalId, stateFile, processedOrders, isListening>>
  /\ lastBatch' = NoBatch
  /\ UNCHANGED <<remote, config, cycles, calls, loaded, verifier, resolver, roundTrip, app,
                 details>>

StartDetect(caller) == StartDetectWithin(caller, MaxResolving)

startOrderListenerDetect == StartDetect("startOrderListener")

\* the same call, made while other calls of startOrderListener may still
\* await the resolver
startOrderListenerOverlapping == StartDetectWithin("startOrderListener", MaxOverlap)

\* a start that takes whatever the resolver answered for a vendor id
AutoDetectedAlways(autoVendorId) == TRUE

\* if (autoVendorId): the empty string is no vendor id
AutoDetected(autoVendorId) == autoVendorId # << >>

\* a start that leaves the config of its caller as it found it
KeepConfig(cfg, autoVendorId) == cfg

\* "config.vendorId = autoVendorId": the write goes to the object the caller
\* handed in
WriteVendorId(cfg, autoVendorId) == [cfg EXCEPT !.vendorId = autoVendorId]

\* the same call resumed with the resolver's answer, which is empty when
\* the credentials are incomplete: an empty answer makes the call throw, any
\* other is written to config.vendorId and the listener starts with it
startOrderListenerResume(autoVendorId) ==
  /\ resolving > 0
  /\ IncompleteCredentials(config.credentials) => autoVendorId = << >>
  /\ resolving' = resolving - 1
  /\ IF ~AutoDetected(autoVendorId)
     THEN /\ lastBatch' = NoBatch
          /\ lastStart' = Started("startOrderListener", "throws")
          /\ UNCHANGED <<config, isListening, intervalId, timers, processedOrders,
                         stateFile, cycles, calls, loaded>>
     ELSE /\ config' = WriteVendorId(config, autoVendorId)
          /\ ListenFrom(autoVendorId, timers, stateFile)
          /\ lastStart' = StartedFrom("startOrderListener", stateFile)
  /\ UNCHANGED <<remote, verifier, resolver, roundTrip, app, details>>

stopOrderListener ==
  /\ timers' = StopTimers(timers, intervalId)
  /\ intervalId' = 0
  /\ stateFile' = StopFile(processedOrders, stateFile)
  /\ processedOrders' = StopLedger(processedOrders)
  /\ isListening' = FALSE
  /\ lastBatch' = NoBatch
  /\ lastStart' = NoStart
  /\ UNCHANGED <<remote, config, resolving, cycles, calls, loaded, verifier, resolver,
                 roundTrip, app, details>>

\* an armed interval timer fires: checkForNewOrders(config, callback) runs
\* up to its first await
Tick(t) ==
  /\ t \in timers
  /\ BagCardinality(cycles) < MaxCycles
  /\ processedOrders' = IF CycleStarts(t.vendorId) /\ ~processedOrders.defined
                        THEN Ledger(<< >>) ELSE processedOrders
  /\ cycles' = BeginCycle(cycles, t.vendorId)
  /\ lastBatch' = NoBatch
  /\ lastStart' = NoStart
  /\ UNCHANGED <<remote, config, isListening, intervalId, timers, resolving, stateFile,
                 calls, loaded, verifier, resolver, roundTrip, app, details>>

\* a step of the chain under the config cfg: getAllOrdersAndFilter throws
\* before its request when the credentials are incomplete, its own catch
\* returns [], and the chain has found nothing
ChainStep(pc, vendorIdRaw, r, cfg) ==
  LET step == FetchStep(pc, vendorIdRaw, r) IN
    IF step.next = "all" /\ IncompleteCredentials(cfg.credentials) THEN Nothing ELSE step

\* the request of the suspended cycle c is answered by r; the cycle runs to
\* its next await or, through the batch, to its end; with told, the cycles
\* left in flight keep a record of the ids it handed to onOrder
RespondNoting(c, r, told) ==
  /\ BagIn(c, cycles)
  /\ r \in Answers(EndpointOf(c.pc))
  /\ \E step \in {ChainStep(c.pc, c.vendorId, r, config)} :
       IF step.next \notin {"process", "done"}
       THEN /\ cycles' = (cycles (-) SetToBag({c})) (+)
                         SetToBag({[Suspended(step.next, c.vendorId,
                                              Append(c.asked, EndpointOf(step.next)))
                                      EXCEPT !.seen = c.seen]})
            /\ lastBatch' = NoBatch
            /\ UNCHANGED <<processedOrders, stateFile, calls>>
       ELSE \E n \in {Len(NewOrders(FilterOwned(step.orders, Str(Trim(c.vendorId))),
                                    processedOrders.ids))} :
            \E outcomes \in [1..n -> CallbackOutcomes] :
            \E b \in {ProcessBatch(c.vendorId, step.orders, outcomes, processedOrders,
                                   stateFile)} :
              /\ cycles' = IF told
                            THEN Told(cycles (-) SetToBag({c}),
                                      {b.invoked[i].id : i \in 1..Len(b.invoked)})
                            ELSE cycles (-) SetToBag({c})
              /\ processedOrders' = b.ledger
              /\ stateFile' = b.file
              /\ calls' = IF b.pruned THEN NoCalls
                          ELSE [id \in OrderIds |-> calls[id] + CountIn(b.invoked, id)]
              /\ lastBatch' =
                   [done |-> TRUE, vendorId |-> c.vendorId, asked |-> c.asked,
                    fetched |-> step.orders, grown |-> b.grown,
                    newOrders |-> b.newOrders, invoked |-> b.invoked,
                    thrown |-> b.thrown, saved |-> b.saved, pruned |-> b.pruned,
                    failed |-> step.failed,
                    settled |-> CycleOutcome(step.failed \/ b.thrown),
                    seen |-> c.seen]
  /\ lastStart' = NoStart
  /\ UNCHANGED <<remote, config, isListening, intervalId, timers, resolving, loaded,
                 verifier, resolver, roundTrip, app, details>>

Respond(c, r) == RespondNoting(c, r, FALSE)

\* the same step, noted by the cycles that stay in flight
RespondTold(c, r) == RespondNoting(c, r, TRUE)

\* a monitoring start that never looks at the vendor id
VendorIdNeverMissing(cfg) == FALSE

\* main.js: if (!config.vendorId || config.vendorId.trim() === '')
VendorIdMissing(cfg) == Blank(cfg.vendorId)

\* the checks at the top of startMonitoringImproved: apiUrl, username,
\* password and printerId, then the vendor id
Refuses(cfg) ==
  IncompleteCredentials(cfg.credentials) \/ ~cfg.printerId \/ VendorIdMissing(cfg)

\* a stopMonitoringImproved that leaves isRunning as it was
RunningAfterStopKept(running) == running

\* isRunning after the stopOrderListener call of stopMonitoringImproved
RunningAfterStop(running) == FALSE

\* a call of main.js that has returned
Call(name, result) == [call |-> name, result |-> result, wasRunning |-> app.isRunning]

\* what the functions of main.js do to the listener, run to their end under
\* the stored config cfg: with stops, stopMonitoringImproved finds isRunning
\* set and calls stopOrderListener; with clears, clearProcessedOrdersState
\* empties the ledger and saves it; with starts, startMonitoringImproved is
\* called, and refuses or calls startOrderListener; the call then returns
\* result
Monitoring(name, cfg, stops, clears, starts, result) ==
  LET armed == IF stops THEN StopTimers(timers, intervalId) ELSE timers
      saved == IF stops THEN StopFile(processedOrders, stateFile) ELSE stateFile
      ledger == CASE clears -> Ledger(<< >>)
                  [] stops -> StopLedger(processedOrders)
                  [] OTHER -> processedOrders
      file == IF clears THEN saveProcessedOrdersState(ledger) ELSE saved
      running == IF stops THEN RunningAfterStop(app.isRunning) ELSE app.isRunning
      \* "if (isListening) stopOrderListener()" of startOrderListener
      again == ~stops /\ isListening
      armedAgain == IF again THEN StopTimers(armed, intervalId) ELSE armed
      fileAgain == IF again THEN StopFile(ledger, file) ELSE file
      \* restartMonitoring ends the handleSaveConfig that called it
      pending == IF name = "restartMonitoring" THEN NotSaving ELSE app.saving
  IN
  /\ lastBatch' = NoBatch
  /\ IF starts /\ ~Refuses(cfg)
     THEN /\ CycleStarts(cfg.vendorId)
          /\ ListenWith(cfg, cfg.vendorId, armedAgain, fileAgain)
          /\ lastStart' = StartedFrom("startMonitoringImproved", fileAgain)
          /\ app' = [isRunning |-> ~LoadOutcome(fileAgain).thrown, saving |-> pending,
                     last |-> Call(name, result)]
     ELSE /\ timers' = armed
          /\ intervalId' = IF stops THEN 0 ELSE intervalId
          /\ isListening' = (~stops /\ isListening)
          /\ processedOrders' = ledger
          /\ stateFile' = file
          /\ calls' = IF clears THEN NoCalls ELSE calls
          /\ UNCHANGED <<cycles, loaded>>
          /\ lastStart' = IF starts THEN Started("startMonitoringImproved", "false")
                          ELSE NoStart
          /\ app' = [isRunning |-> running, saving |-> pending,
                     last |-> Call(name, result)]
  /\ UNCHANGED <<remote, resolving, verifier, resolver, roundTrip, details>>

\* startMonitoringImproved of main.js: with incomplete settings or without a
\* vendor id it notifies the user and returns false; otherwise it stops what
\* was running, calls startOrderListener and sets isRunning
startMonitoringImproved ==
  /\ UNCHANGED config
  /\ IF Refuses(config)
     THEN Monitoring("startMonitoringImproved", config, FALSE, FALSE, TRUE, "false")
     ELSE \/ Monitoring("startMonitoringImproved", config, app.isRunning, FALSE, TRUE,
                        "true")
          \/ StartDetect("startMonitoringImproved")

\* stopMonitoringImproved of main.js: it calls stopOrderListener only when
\* isRunning is set, and returns true
stopMonitoringImproved ==
  /\ UNCHANGED config
  /\ Monitoring("stopMonitoringImproved", config, app.isRunning, FALSE, FALSE, "true")

\* restartMonitoring of main.js under the stored config cfg: when isRunning
\* is set it stops, calls startMonitoringImproved and returns true whatever
\* that call returned; otherwise it returns false
restartMonitoring(cfg) ==
  Monitoring("restartMonitoring", cfg, app.isRunning, FALSE, app.isRunning,
             IF app.isRunning THEN "true" ELSE "false")

\* handleClearProcessedOrders of main.js: stop when running, clear, start
\* again when it was running; it returns success
handleClearProcessedOrders ==
  /\ UNCHANGED config
  /\ Monitoring("handleClearProcessedOrders", config, app.isRunning, TRUE, app.isRunning,
                "true")

\* the comparison of handleSaveConfig between the stored and the new config
Differs(old, new) ==
  \/ old.credentials # new.credentials
  \/ old.vendorId # new.vendorId
  \/ old.checkInterval # new.checkInterval

\* the end of handleSaveConfig: store.set('config', cfg), and a restart when
\* one is needed
StoreAndRestart(cfg, needsRestart) ==
  /\ config' = cfg
  /\ IF needsRestart
     THEN restartMonitoring(cfg)
     ELSE /\ app' = [app EXCEPT !.saving = NotSaving, !.last = Call("handleSaveConfig", "true")]
          /\ lastBatch' = NoBatch
          /\ lastStart' = NoStart
          /\ UNCHANGED <<remote, isListening, intervalId, timers, resolving,
                         processedOrders, stateFile, cycles, calls, loaded, verifier,
                         resolver, roundTrip, details>>

\* handleSaveConfig(event, new) of main.js with a vendor id in the new
\* config: it runs to its end
handleSaveConfig(new) ==
  /\ ~app.saving.pending
  /\ ~Blank(new.vendorId)
  /\ StoreAndRestart(new, app.isRunning /\ Differs(config, new))

\* the same call without a vendor id in the new config, up to its await of
\* getVendorIdFromCredentials
handleSaveConfigDetect(new) ==
  /\ ~app.saving.pending
  /\ Blank(new.vendorId)
  /\ app' = [app EXCEPT !.saving = [pending |-> TRUE, cfg |-> new, old |-> config,
                                    needsRestart |-> app.isRunning /\ Differs(config, new)]]
  /\ lastBatch' = NoBatch
  /\ lastStart' = NoStart
  /\ UNCHANGED <<remote, config, isListening, intervalId, timers, resolving,
                 processedOrders, stateFile, cycles, calls, loaded, verifier, resolver,
                 roundTrip, details>>

\* the call resumed with the resolver's answer: an id is written to the new
\* config, and asks for a restart when it is not the stored one
handleSaveConfigResume(autoVendorId) ==
  /\ app.saving.pending
  /\ IncompleteCredentials(app.saving.cfg.credentials) => autoVendorId = << >>
  /\ IF AutoDetected(autoVendorId)
     THEN StoreAndRestart([app.saving.cfg EXCEPT !.vendorId = autoVendorId],
                          IF app.saving.old.vendorId # autoVendorId
                          THEN app.isRunning ELSE app.saving.needsRestart)
     ELSE StoreAndRestart(app.saving.cfg, app.saving.needsRestart)

Init ==
  /\ remote = AnyRemote
  /\ config \in {[vendorId |-> v, checkInterval |-> Undef,
                 credentials |-> CompleteCredentials, printerId |-> TRUE] : v \in ConfigVendorIds}
  /\ isListening = FALSE
  /\ intervalId = 0
  /\ timers = {}
  /\ resolving = 0
  /\ processedOrders = Undefined
  /\ stateFile = MissingFile
  /\ cycles = EmptyBag
  /\ lastBatch = NoBatch
  /\ calls = NoCalls
  /\ loaded = {}
  /\ lastStart = NoStart
  /\ verifier = IdleVerifier
  /\ resolver = IdleResolver
  /\ roundTrip = IdleRoundTrip
  /\ app = IdleApp
  /\ details = IdleDetails

Next ==
  \/ startOrderListener
  \/ startOrderListenerDetect
  \/ \E a \in AutoVendorIds : startOrderListenerResume(a)
  \/ stopOrderListener
  \/ \E t \in timers : Tick(t)
  \/ \E c \in BagToSet(cycles), r \in Responses : Respond(c, r)

Spec == Init /\ [][Next]_vars

\* the steps of a listener whose config names a vendor: auto-detection is
\* never entered
NextConfigured ==
  \/ startOrderListener
  \/ stopOrderListener
  \/ \E t \in timers : Tick(t)
  \/ \E c \in BagToSet(cycles), r \in Responses : Respond(c, r)

(***************************************************************************)
(* The application and the listener, with and without a vendor id          *)
(***************************************************************************)
\* the resolver may answer with a blank string it read from an order's meta
ResolverAnswers == AutoVendorIds \cup {<<" ">>}

NextGuarded ==
  \/ startMonitoringImproved
  \/ startOrderListener
  \/ startOrderListenerDetect
  \/ \E a \in ResolverAnswers : startOrderListenerResume(a)
  \/ stopOrderListener
  \/ \E t \in timers : Tick(t)
  \/ \E c \in BagToSet(cycles), r \in Responses : Respond(c, r)

\* a store that answers the first request with an order of the vendor, and
\* one where only the unfiltered list has one
GuardedRemotes ==
  {[stable |-> TRUE, direct |-> Answer(<<OrderA>>), metaq |-> Failure, all |-> Failure,
    dokan |-> Failure],
   [stable |-> TRUE, direct |-> Failure, metaq |-> Answer(<< >>),
    all |-> Answer(<<OrderB>>), dokan |-> Answer(<< >>)]}

InitGuarded ==
  /\ remote \in GuardedRemotes
  /\ config \in {[vendorId |-> v, checkInterval |-> Undef,
                 credentials |-> CompleteCredentials, printerId |-> TRUE] : v \in ConfigVendorIds}
  /\ isListening = FALSE
  /\ intervalId = 0
  /\ timers = {}
  /\ resolving = 0
  /\ processedOrders = Undefined
  /\ stateFile = MissingFile
  /\ cycles = EmptyBag
  /\ lastBatch = NoBatch
  /\ calls = NoCalls
  /\ loaded = {}
  /\ lastStart = NoStart
  /\ verifier = IdleVerifier
  /\ resolver = IdleResolver
  /\ roundTrip = IdleRoundTrip
  /\ app = IdleApp
  /\ details = IdleDetails

SpecGuarded == InitGuarded /\ [][NextGuarded]_vars

(***************************************************************************)
(* The application alone drives the listener: the window's buttons, the    *)
(* settings form and the ledger reset                                      *)
(***************************************************************************)
\* the polling periods of the settings form, in seconds
FormIntervals == {Num(30), Num(DefaultCheckInterval)}

\* the configs the settings form sends: it insists on the credentials, a
\* printer and a period of ten seconds or more, and leaves the vendor id
\* optional
AppConfigs ==
  {[vendorId |-> v, checkInterval |-> i, credentials |-> CompleteCredentials,
    printerId |-> TRUE] : v \in AutoVendorIds, i \in FormIntervals}

NextApp ==
  \/ startMonitoringImproved
  \/ stopMonitoringImproved
  \/ handleClearProcessedOrders
  \/ \E new \in AppConfigs : handleSaveConfig(new)
  \/ \E new \in AppConfigs : handleSaveConfigDetect(new)
  \/ \E a \in AutoVendorIds : handleSaveConfigResume(a)
  \/ \E t \in timers : Tick(t)
  \/ \E c \in BagToSet(cycles), r \in Responses : Respond(c, r)

InitApp ==
  /\ remote \in GuardedRemotes
  /\ config \in AppConfigs \cup {NoConfig}
  /\ isListening = FALSE
  /\ intervalId = 0
  /\ timers = {}
  /\ resolving = 0
  /\ processedOrders = Undefined
  /\ stateFile = MissingFile
  /\ cycles = EmptyBag
  /\ lastBatch = NoBatch
  /\ calls = NoCalls
  /\ loaded = {}
  /\ lastStart = NoStart
  /\ verifier = IdleVerifier
  /\ resolver = IdleResolver
  /\ roundTrip = IdleRoundTrip
  /\ app = IdleApp
  /\ details = IdleDetails

SpecApp == InitApp /\ [][NextApp]_vars

C37_ClearEmptiesAndRestarts ==
  [][handleClearProcessedOrders =>
       /\ processedOrders' = Ledger(<< >>)
       /\ stateFile' = JsonFile(<< >>)
       /\ app'.isRunning <=> app.isRunning
       /\ app'.isRunning => loaded' = {} /\ isListening']_vars

\* the same call, except that monitoring is left stopped when the stored
\* config no longer passes the checks of startMonitoringImproved
C37_ClearEmptiesAndRestartsIfConfigured ==
  [][handleClearProcessedOrders =>
       /\ processedOrders' = Ledger(<< >>)
       /\ stateFile' = JsonFile(<< >>)
       /\ app'.isRunning <=> (app.isRunning /\ ~Refuses(config))
       /\ app'.isRunning => loaded' = {} /\ isListening']_vars

(***************************************************************************)
(* Calls of startOrderListener that overlap at the resolver                *)
(***************************************************************************)
InitOverlap ==
  /\ remote \in GuardedRemotes
  /\ config \in {[vendorId |-> v, checkInterval |-> Undef,
                 credentials |-> CompleteCredentials, printerId |-> TRUE] : v \in {<< >>, <<" ">>}}
  /\ isListening = FALSE
  /\ intervalId = 0
  /\ timers = {}
  /\ resolving = 0
  /\ processedOrders = Undefined
  /\ stateFile = MissingFile
  /\ cycles = EmptyBag
  /\ lastBatch = NoBatch
  /\ calls = NoCalls
  /\ loaded = {}
  /\ lastStart = NoStart
  /\ verifier = IdleVerifier
  /\ resolver = IdleResolver
  /\ roundTrip = IdleRoundTrip
  /\ app = IdleApp
  /\ details = IdleDetails

NextOverlap ==
  \/ startOrderListenerOverlapping
  \/ \E a \in AutoVendorIds : startOrderListenerResume(a)
  \/ stopOrderListener
  \/ \E t \in timers : Tick(t)
  \/ \E c \in BagToSet(cycles), r \in Responses : Respond(c, r)

SpecOverlap == InitOverlap /\ [][NextOverlap]_vars

(***************************************************************************)
(* Cycles in flight at once, each noting what the others dispatch          *)
(***************************************************************************)
InitTold ==
  /\ remote \in GuardedRemotes
  /\ config \in {[vendorId |-> VendorSeven, checkInterval |-> Undef,
                 credentials |-> CompleteCredentials, printerId |-> TRUE]}
  /\ isListening = FALSE
  /\ intervalId = 0
  /\ timers = {}
  /\ resolving = 0
  /\ processedOrders = Undefined
  /\ stateFile = MissingFile
  /\ cycles = EmptyBag
  /\ lastBatch = NoBatch
  /\ calls = NoCalls
  /\ loaded = {}
  /\ lastStart = NoStart
  /\ verifier = IdleVerifier
  /\ resolver = IdleResolver
  /\ roundTrip = IdleRoundTrip
  /\ app = IdleApp
  /\ details = IdleDetails

NextTold ==
  \/ startOrderListener
  \/ stopOrderListener
  \/ \E t \in timers : Tick(t)
  \/ \E c \in BagToSet(cycles), r \in Responses : RespondTold(c, r)

SpecTold == InitTold /\ [][NextTold]_vars

(***************************************************************************)
(* A store whose answers do not change                                     *)
(***************************************************************************)
Stable(direct, metaq, all, dokan) ==
  [stable |-> TRUE, direct |-> direct, metaq |-> metaq, all |-> all, dokan |-> dokan]

\* a server that ignores the vendor_id parameter may answer with other
\* vendors' orders; the unfiltered list and the Dokan list may hold anything
StableRemotes ==
  {Stable(d, m, a, k) :
     d \in {Failure, Answer(<< >>), Answer(<<OrderC>>)},
     m \in {Failure, Answer(<< >>)},
     a \in {Failure, Answer(<< >>), Answer(<<OrderB>>), Answer(<<OrderB, OrderA>>)},
     k \in {Failure, Answer(<< >>), Answer(<<OrderB, OrderA>>), Answer(<<OrderC>>)}}

InitStable ==
  /\ remote \in StableRemotes
  /\ config \in {[vendorId |-> VendorSeven, checkInterval |-> Undef,
                 credentials |-> CompleteCredentials, printerId |-> TRUE]}
  /\ isListening = FALSE
  /\ intervalId = 0
  /\ timers = {}
  /\ resolving = 0
  /\ processedOrders = Undefined
  /\ stateFile = MissingFile
  /\ cycles = EmptyBag
  /\ lastBatch = NoBatch
  /\ calls = NoCalls
  /\ loaded = {}
  /\ lastStart = NoStart
  /\ verifier = IdleVerifier
  /\ resolver = IdleResolver
  /\ roundTrip = IdleRoundTrip
  /\ app = IdleApp
  /\ details = IdleDetails

SpecStable == InitStable /\ [][NextConfigured]_vars

(***************************************************************************)
(* The listener under every value checkInterval may have: as it was       *)
(* stored, or as sanitizeConfigObject leaves it                            *)
(***************************************************************************)
CheckIntervals ==
  {Undef, Null, Num(0), Num(0 - 1), Num(0 - 30), Num(1), Num(30), Num(60), Num(3600),
   Str(<<"3", "0">>), Str(<<"-", "5">>), Str(<<"a">>)}

InitInterval ==
  /\ remote \in StableRemotes
  /\ \E raw \in CheckIntervals :
       config \in {[vendorId |-> VendorSeven, checkInterval |-> v,
                      credentials |-> CompleteCredentials, printerId |-> TRUE] :
                     v \in {raw, sanitizeCheckInterval(raw)}}
  /\ isListening = FALSE
  /\ intervalId = 0
  /\ timers = {}
  /\ resolving = 0
  /\ processedOrders = Undefined
  /\ stateFile = MissingFile
  /\ cycles = EmptyBag
  /\ lastBatch = NoBatch
  /\ calls = NoCalls
  /\ loaded = {}
  /\ lastStart = NoStart
  /\ verifier = IdleVerifier
  /\ resolver = IdleResolver
  /\ roundTrip = IdleRoundTrip
  /\ app = IdleApp
  /\ details = IdleDetails

SpecInterval == InitInterval /\ [][NextConfigured]_vars

(***************************************************************************)
(* The listener under configs whose apiUrl, username or password may be    *)
(* missing, with and without a vendor id                                   *)
(***************************************************************************)
ListenerCredentials ==
  {Credentials(FALSE, EmailName, TRUE), Credentials(TRUE, << >>, TRUE),
   Credentials(TRUE, EmailName, FALSE), CompleteCredentials}

InitCredentials ==
  /\ remote \in GuardedRemotes
  /\ config \in {[vendorId |-> v, checkInterval |-> Undef, credentials |-> c, printerId |-> TRUE] :
                   v \in {<< >>, VendorSeven}, c \in ListenerCredentials}
  /\ isListening = FALSE
  /\ intervalId = 0
  /\ timers = {}
  /\ resolving = 0
  /\ processedOrders = Undefined
  /\ stateFile = MissingFile
  /\ cycles = EmptyBag
  /\ lastBatch = NoBatch
  /\ calls = NoCalls
  /\ loaded = {}
  /\ lastStart = NoStart
  /\ verifier = IdleVerifier
  /\ resolver = IdleResolver
  /\ roundTrip = IdleRoundTrip
  /\ app = IdleApp
  /\ details = IdleDetails

SpecCredentials == InitCredentials /\ [][Next]_vars

(***************************************************************************)
(* The listener started over a ledger file that is missing, cannot be      *)
(* read, is not JSON, or holds the id of an earlier session                *)
(***************************************************************************)
LedgerFiles == {MissingFile, UnreadableFile, CorruptFile, JsonFile(<<OrderA.id>>)}

InitFiles ==
  /\ remote \in StableRemotes
  /\ config \in {[vendorId |-> VendorSeven, checkInterval |-> Undef,
                 credentials |-> CompleteCredentials, printerId |-> TRUE]}
  /\ isListening = FALSE
  /\ intervalId = 0
  /\ timers = {}
  /\ resolving = 0
  /\ processedOrders = Undefined
  /\ stateFile \in LedgerFiles
  /\ cycles = EmptyBag
  /\ lastBatch = NoBatch
  /\ calls = NoCalls
  /\ loaded = {}
  /\ lastStart = NoStart
  /\ verifier = IdleVerifier
  /\ resolver = IdleResolver
  /\ roundTrip = IdleRoundTrip
  /\ app = IdleApp
  /\ details = IdleDetails

SpecFiles == InitFiles /\ [][NextConfigured]_vars

(***************************************************************************)
(* The listener under a config that has no vendor id when it is first      *)
(* handed in, and is handed in again by later calls                        *)
(***************************************************************************)
InitDetect ==
  /\ remote \in GuardedRemotes
  /\ config \in {[vendorId |-> v, checkInterval |-> Undef,
                   credentials |-> CompleteCredentials, printerId |-> TRUE] : v \in {<< >>, <<" ">>}}
  /\ isListening = FALSE
  /\ intervalId = 0
  /\ timers = {}
  /\ resolving = 0
  /\ processedOrders = Undefined
  /\ stateFile = MissingFile
  /\ cycles = EmptyBag
  /\ lastBatch = NoBatch
  /\ calls = NoCalls
  /\ loaded = {}
  /\ lastStart = NoStart
  /\ verifier = IdleVerifier
  /\ resolver = IdleResolver
  /\ roundTrip = IdleRoundTrip
  /\ app = IdleApp
  /\ details = IdleDetails

SpecDetect == InitDetect /\ [][Next]_vars

\* the event loop runs every armed timer and delivers every answer
Fairness ==
  /\ WF_vars(\E t \in timers : Tick(t))
  /\ WF_vars(\E c \in BagToSet(cycles), r \in Responses : Respond(c, r))

SpecLive == InitStable /\ [][NextConfigured]_vars /\ Fairness

(***************************************************************************)
(* A store that misbehaves                                                 *)
(***************************************************************************)
\* an order of vendor 7 that is no longer being processed
OrderD ==
  Order(4, "completed", Array(<<Meta("_dokan_vendor_id", Str(VendorSeven))>>), NoArray,
        NoFields)

\* answers that fail, hold a null where an order should be, or list an order
\* the status filter of the request should have left out
FaultyResponses ==
  {Failure, Answer(<< >>), Answer(<<OrderA>>), Answer(<<NullOrder>>),
   Answer(<<OrderA, NullOrder>>), Answer(<<OrderD>>), Answer(<<OrderD, OrderA>>)}

FaultyRemotes ==
  {Stable(d, m, a, k) :
     d \in {Failure, Answer(<< >>)},
     m \in {Failure, Answer(<< >>)},
     a \in {Failure, Answer(<< >>), Answer(<<NullOrder>>), Answer(<<OrderA>>),
            Answer(<<OrderD, OrderA>>)},
     k \in {Failure, Answer(<< >>), Answer(<<OrderA, NullOrder>>), Answer(<<OrderD>>)}}

InitFaulty ==
  /\ remote \in FaultyRemotes
  /\ config \in {[vendorId |-> VendorSeven, checkInterval |-> Undef,
                 credentials |-> CompleteCredentials, printerId |-> TRUE]}
  /\ isListening = FALSE
  /\ intervalId = 0
  /\ timers = {}
  /\ resolving = 0
  /\ processedOrders = Undefined
  /\ stateFile = MissingFile
  /\ cycles = EmptyBag
  /\ lastBatch = NoBatch
  /\ calls = NoCalls
  /\ loaded = {}
  /\ lastStart = NoStart
  /\ verifier = IdleVerifier
  /\ resolver = IdleResolver
  /\ roundTrip = IdleRoundTrip
  /\ app = IdleApp
  /\ details = IdleDetails

NextFaulty ==
  \/ startOrderListener
  \/ stopOrderListener
  \/ \E t \in timers : Tick(t)
  \/ \E c \in BagToSet(cycles), r \in FaultyResponses : Respond(c, r)

SpecFaulty == InitFaulty /\ [][NextFaulty]_vars

(***************************************************************************)
(* A long persisted history                                                *)
(***************************************************************************)
\* n ids, the oldest of them the id of OrderA
History(n) == [i \in 1..n |-> IF i = 1 THEN OrderA.id ELSE 100 + i]

InitPrune ==
  /\ remote = AnyRemote
  /\ config \in {[vendorId |-> VendorSeven, checkInterval |-> Undef,
                 credentials |-> CompleteCredentials, printerId |-> TRUE]}
  /\ isListening = FALSE
  /\ intervalId = 0
  /\ timers = {}
  /\ resolving = 0
  /\ processedOrders = Undefined
  /\ stateFile \in {JsonFile(History(n)) :
                      n \in (PruneThreshold - PruneWindow)..PruneThreshold}
  /\ cycles = EmptyBag
  /\ lastBatch = NoBatch
  /\ calls = NoCalls
  /\ loaded = {}
  /\ lastStart = NoStart
  /\ verifier = IdleVerifier
  /\ resolver = IdleResolver
  /\ roundTrip = IdleRoundTrip
  /\ app = IdleApp
  /\ details = IdleDetails

SpecPrune == InitPrune /\ [][NextConfigured]_vars

(***************************************************************************)
(* The verifier called on its own                                          *)
(***************************************************************************)
FortyTwo == <<"4", "2">>

VerifierValues == {Num(0), Num(42), Str(FortyTwo)}
VerifierVendorIds ==
  {Null, Str(<< >>), Num(0), Str(<<"0">>), Num(42), Str(FortyTwo), Str(VendorNine)}

\* entries that never match vendor 42, put in front of a meta_data list
Decoys == {NullMeta, Meta("_dokan_vendor_id", Str(VendorNine))}
OtherMetaKey == "_billing_number"

RECURSIVE DecoyLists(_)
DecoyLists(k) ==
  IF k = 0 THEN {<< >>}
  ELSE DecoyLists(k - 1) \cup
       {Append(q, d) : q \in {r \in DecoyLists(k - 1) : Len(r) = k - 1}, d \in Decoys}

VerifierMetaLists ==
  {NoArray} \cup
  {Array(l) : l \in UNION {{d \o e, e \o d} :
     d \in DecoyLists(MaxDecoys),
     e \in {<< >>} \cup {<<Meta(k, v)>> : k \in OrderMetaKeys \cup {OtherMetaKey},
                                          v \in VerifierValues}}}

NullItem == [isNull |-> TRUE, meta_data |-> NoArray, vendor_id |-> Null]

VerifierItemLists ==
  {NoArray, Array(<< >>), Array(<<NullItem>>)} \cup
  {Array(<<Item(md, vid)>>) :
     md \in {NoArray} \cup
            {Array(<<Meta(k, v)>>) : k \in {"_dokan_vendor_id", "_vendor_id", "store_owner_id"},
                                     v \in {Num(42), Str(VendorNine)}},
     vid \in {Null, Num(42)}}

VerifierFields ==
  {NoFields} \cup {OneField(f, v) : f \in TopFields, v \in {Num(0), Str(FortyTwo)}}

VerifierOrders ==
  {NullOrder} \cup
  {Order(1, "processing", md, li, fs) :
     md \in VerifierMetaLists, li \in VerifierItemLists, fs \in VerifierFields}

InitVerifier ==
  /\ remote = AnyRemote
  /\ config \in {[vendorId |-> VendorSeven, checkInterval |-> Undef,
                 credentials |-> CompleteCredentials, printerId |-> TRUE]}
  /\ isListening = FALSE
  /\ intervalId = 0
  /\ timers = {}
  /\ resolving = 0
  /\ processedOrders = Undefined
  /\ stateFile = MissingFile
  /\ cycles = EmptyBag
  /\ lastBatch = NoBatch
  /\ calls = NoCalls
  /\ loaded = {}
  /\ lastStart = NoStart
  /\ resolver = IdleResolver
  /\ roundTrip = IdleRoundTrip
  /\ verifier \in {[phase |-> "called", order |-> o, vendorId |-> v, result |-> "false"] :
                     o \in VerifierOrders, v \in VerifierVendorIds}
  /\ app = IdleApp
  /\ details = IdleDetails

\* a call of orderBelongsToVendor(order, vendorId) runs to its end: it
\* returns true, returns false, or lets an exception escape
orderBelongsToVendorCall ==
  /\ verifier.phase = "called"
  /\ verifier' = [verifier EXCEPT !.phase = "returned",
                                  !.result = OwnershipOutcome(verifier.order,
                                                              verifier.vendorId)]
  /\ UNCHANGED <<remote, config, isListening, intervalId, timers, resolving,
                 processedOrders, stateFile, cycles, lastBatch, calls, loaded, lastStart,
                 resolver, roundTrip, app, details>>

SpecVerifier == InitVerifier /\ [][orderBelongsToVendorCall]_vars

(***************************************************************************)
(* The batch verifier called on its own, and again on what it returned     *)
(***************************************************************************)
BatchVendorIds == {Null, Str(<< >>), Num(7), Str(VendorSeven), Str(VendorNine)}

BatchOrders == Catalogue \cup {NullOrder}

BatchArguments ==
  {NoArray} \cup {Array(q) : q \in UNION {[1..n -> BatchOrders] : n \in 0..MaxBatch}}

NoVerdict == [thrown |-> FALSE, orders |-> << >>]

InitBatch ==
  /\ remote = AnyRemote
  /\ config \in {[vendorId |-> VendorSeven, checkInterval |-> Undef,
                 credentials |-> CompleteCredentials, printerId |-> TRUE]}
  /\ isListening = FALSE
  /\ intervalId = 0
  /\ timers = {}
  /\ resolving = 0
  /\ processedOrders = Undefined
  /\ stateFile = MissingFile
  /\ cycles = EmptyBag
  /\ lastBatch = NoBatch
  /\ calls = NoCalls
  /\ loaded = {}
  /\ lastStart = NoStart
  /\ resolver = IdleResolver
  /\ roundTrip = IdleRoundTrip
  /\ verifier \in {[phase |-> "called", orders |-> a, vendorId |-> v,
                     result |-> NoVerdict, again |-> NoVerdict] :
                     a \in BatchArguments, v \in BatchVendorIds}
  /\ app = IdleApp
  /\ details = IdleDetails

\* a call of verifyOrdersBelongToVendor(orders, vendorId) runs to its end:
\* it returns a list or lets an exception escape
verifyOrdersBelongToVendorCall ==
  /\ verifier.phase = "called"
  /\ verifier' = [verifier EXCEPT
                    !.phase = "returned",
                    !.result = verifyOrdersBelongToVendorOf(verifier.orders,
                                                            verifier.vendorId)]
  /\ UNCHANGED <<remote, config, isListening, intervalId, timers, resolving,
                 processedOrders, stateFile, cycles, lastBatch, calls, loaded, lastStart,
                 resolver, roundTrip, app, details>>

\* the list the call returned is handed to verifyOrdersBelongToVendor again
verifyOrdersBelongToVendorAgain ==
  /\ verifier.phase = "returned"
  /\ ~verifier.result.thrown
  /\ verifier' = [verifier EXCEPT
                    !.phase = "filtered again",
                    !.again = verifyOrdersBelongToVendorOf(Array(verifier.result.orders),
                                                           verifier.vendorId)]
  /\ UNCHANGED <<remote, config, isListening, intervalId, timers, resolving,
                 processedOrders, stateFile, cycles, lastBatch, calls, loaded, lastStart,
                 resolver, roundTrip, app, details>>

NextBatch == verifyOrdersBelongToVendorCall \/ verifyOrdersBelongToVendorAgain

SpecBatch == InitBatch /\ [][NextBatch]_vars

(***************************************************************************)
(* The resolver called on its own                                          *)
(***************************************************************************)

ResolverConfigs ==
  {NullCredentials, Credentials(FALSE, EmailName, TRUE), Credentials(TRUE, << >>, TRUE),
   Credentials(TRUE, EmailName, FALSE), Credentials(TRUE, EmailName, TRUE),
   Credentials(TRUE, StoreName, TRUE)}

\* a vendor whose e-mail is the username up to case and whose store name
\* holds the store username
VendorOwn == Vendor(Num(7), Str(<<"A", "@", "b">>), Str(<<"S", "h">>))
\* a vendor whose e-mail only includes the username
VendorPart == Vendor(Num(9), Str(<<"x", "a", "@", "b">>), Null)
\* a vendor that matches and has no id
VendorNoId == Vendor(Null, Str(EmailName), Str(StoreName))

ResolverVendors == {VendorOwn, VendorPart, VendorNoId, NullVendor}

\* an order whose vendor key has no value, one whose meta list holds a
\* null, and one whose vendor id is a blank
OrderNoValue == Order(5, "processing", Array(<<Meta("_dokan_vendor_id", Null)>>), NoArray, NoFields)
OrderNullMeta == Order(6, "processing", Array(<<NullMeta>>), NoArray, NoFields)
OrderBlank ==
  Order(7, "processing", Array(<<Meta("vendor_id", Str(<<" ">>))>>), NoArray, NoFields)

StoresAnswers ==
  {Unreachable, NoList, Listing(<< >>)} \cup
  {Listing(<<v>>) : v \in ResolverVendors} \cup
  {Listing(<<v, w>>) : v \in ResolverVendors, w \in ResolverVendors}
MeAnswers == {Unreachable, NoList, User(Num(0)), User(Num(5))}
OwnerAnswers ==
  {Unreachable, NoList, Listing(<< >>), Listing(<<VendorOwn>>), Listing(<<VendorNoId>>),
   Listing(<<NullVendor>>)}
OrdersAnswers ==
  {Unreachable, NoList, Listing(<< >>), Listing(<<OrderA>>), Listing(<<OrderA, OrderC>>),
   Listing(<<OrderA, OrderA>>), Listing(<<OrderB>>), Listing(<<NullOrder>>),
   Listing(<<OrderA, OrderNoValue>>), Listing(<<OrderNullMeta>>), Listing(<<OrderBlank>>)}

LookupAnswers == StoresAnswers \cup MeAnswers \cup OwnerAnswers \cup OrdersAnswers

AnswersAt(pc) ==
  CASE pc = "stores" -> StoresAnswers
    [] pc = "me" -> MeAnswers
    [] pc = "owner" -> OwnerAnswers
    [] pc = "orders" -> OrdersAnswers
    [] OTHER -> {}

InitResolver ==
  /\ remote = AnyRemote
  /\ config \in {[vendorId |-> << >>, checkInterval |-> Undef,
                 credentials |-> CompleteCredentials, printerId |-> TRUE]}
  /\ isListening = FALSE
  /\ intervalId = 0
  /\ timers = {}
  /\ resolving = 0
  /\ processedOrders = Undefined
  /\ stateFile = MissingFile
  /\ cycles = EmptyBag
  /\ lastBatch = NoBatch
  /\ calls = NoCalls
  /\ loaded = {}
  /\ lastStart = NoStart
  /\ verifier = IdleVerifier
  /\ resolver \in {[IdleResolver EXCEPT !.pc = "called", !.config = c] :
                     c \in ResolverConfigs}
  /\ roundTrip = IdleRoundTrip
  /\ app = IdleApp
  /\ details = IdleDetails

\* getVendorIdFromCredentials(config) up to its first request, or to its end
getVendorIdFromCredentialsCall ==
  /\ resolver.pc = "called"
  /\ \E step \in {OuterCatch(BeginTry(resolver.config))} :
       resolver' = IF step.kind = "next"
                   THEN [resolver EXCEPT !.pc = step.pc]
                   ELSE [resolver EXCEPT !.pc = "returned", !.result = ResultOf(step)]
  /\ UNCHANGED <<remote, config, isListening, intervalId, timers, resolving,
                 processedOrders, stateFile, cycles, lastBatch, calls, loaded, lastStart,
                 verifier, roundTrip, app, details>>

\* the request the resolver awaits is answered by r: it goes on to the next
\* lookup or returns
getVendorIdFromCredentialsResume(r) ==
  /\ r \in AnswersAt(resolver.pc)
  /\ \E step \in {ResolverStep(resolver.pc, resolver.config, resolver.userId, r)} :
       resolver' = IF step.kind = "next"
                   THEN [resolver EXCEPT !.pc = step.pc,
                                         !.userId = step.userId,
                                         !.heard = Append(@, r)]
                   ELSE [resolver EXCEPT !.pc = "returned",
                                         !.heard = Append(@, r),
                                         !.result = ResultOf(step)]
  /\ UNCHANGED <<remote, config, isListening, intervalId, timers, resolving,
                 processedOrders, stateFile, cycles, lastBatch, calls, loaded, lastStart,
                 verifier, roundTrip, app, details>>

NextResolver ==
  \/ getVendorIdFromCredentialsCall
  \/ \E r \in LookupAnswers : getVendorIdFromCredentialsResume(r)

SpecResolver == InitResolver /\ [][NextResolver]_vars

(***************************************************************************)
(* Save and load called on their own                                       *)
(***************************************************************************)
\* ids as order.id may be: numbers, strings, null, undefined
LedgerIds ==
  {Num(7), Num(10), Str(<<"7">>), Str(<<",", Quote>>), Str(<<Backslash, "n">>), Null, Undef}

RECURSIVE DistinctUpTo(_, _)
DistinctUpTo(S, k) ==
  IF k = 0 THEN {<< >>}
  ELSE LET shorter == DistinctUpTo(S, k - 1) IN
    shorter \cup
      UNION {{Append(q, x) : x \in S \ Range(q)} : q \in {r \in shorter : Len(r) = k - 1}}

Ledgers == {Undefined} \cup {Ledger(ids) : ids \in DistinctUpTo(LedgerIds, MaxLedger)}

InitLedger ==
  /\ remote = AnyRemote
  /\ config \in {[vendorId |-> << >>, checkInterval |-> Undef,
                 credentials |-> CompleteCredentials, printerId |-> TRUE]}
  /\ isListening = FALSE
  /\ intervalId = 0
  /\ timers = {}
  /\ resolving = 0
  /\ processedOrders = Undefined
  /\ stateFile = MissingFile
  /\ cycles = EmptyBag
  /\ lastBatch = NoBatch
  /\ calls = NoCalls
  /\ loaded = {}
  /\ lastStart = NoStart
  /\ verifier = IdleVerifier
  /\ resolver = IdleResolver
  /\ roundTrip \in {[IdleRoundTrip EXCEPT !.phase = "ledger", !.ledger = l, !.saved = l] :
                      l \in Ledgers}
  /\ app = IdleApp
  /\ details = IdleDetails

\* saveProcessedOrdersState(): the first save of a session, or the save
\* that follows a load
saveProcessedOrdersStateCall ==
  /\ roundTrip.phase \in {"ledger", "loaded"}
  /\ roundTrip' =
       IF roundTrip.phase = "ledger"
       THEN [roundTrip EXCEPT !.phase = "saved",
                              !.file = WrittenText(roundTrip.ledger),
                              !.written = WrittenText(roundTrip.ledger)]
       ELSE [roundTrip EXCEPT !.phase = "resaved", !.file = WrittenText(roundTrip.ledger)]
  /\ UNCHANGED <<remote, config, isListening, intervalId, timers, resolving,
                 processedOrders, stateFile, cycles, lastBatch, calls, loaded, lastStart,
                 verifier, resolver, app, details>>

\* loadProcessedOrdersState() after a save
loadProcessedOrdersStateCall ==
  /\ roundTrip.phase = "saved"
  /\ roundTrip' = [roundTrip EXCEPT !.phase = "loaded", !.ledger = ReadText(roundTrip.file)]
  /\ UNCHANGED <<remote, config, isListening, intervalId, timers, resolving,
                 processedOrders, stateFile, cycles, lastBatch, calls, loaded, lastStart,
                 verifier, resolver, app, details>>

NextLedger == saveProcessedOrdersStateCall \/ loadProcessedOrdersStateCall

SpecLedger == InitLedger /\ [][NextLedger]_vars

(***************************************************************************)
(* Ownership evidence, stated without the scan order of the code           *)
(***************************************************************************)
\* a value names vendor s: it is truthy and its string form is s
MatchesVendor(v, s) == Truthy(v) /\ toString(v) = s

MetaEvidence(md, keys, s) ==
  /\ md.isArray
  /\ \E i \in 1..Len(md.list) :
       /\ ~md.list[i].isNull
       /\ md.list[i].key \in keys
       /\ MatchesVendor(md.list[i].value, s)

ItemEvidence(li, s) ==
  /\ li.isArray
  /\ \E i \in 1..Len(li.list) :
       /\ ~li.list[i].isNull
       /\ \/ MetaEvidence(li.list[i].meta_data, ItemMetaKeys, s)
          \/ MatchesVendor(li.list[i].vendor_id, s)

FieldEvidence(order, s) == \E f \in PossibleFieldSet : MatchesVendor(order.fields[f], s)

Evidence(order, s) ==
  /\ ~order.isNull
  /\ \/ MetaEvidence(order.meta_data, OrderMetaKeys, s)
     \/ ItemEvidence(order.line_items, s)
     \/ FieldEvidence(order, s)

Configured == CycleStarts(config.vendorId)
TimerIds(armed) == {t.id : t \in armed}

(***************************************************************************)
(* Properties of the polling cycle                                         *)
(***************************************************************************)
\* C1, with the vendor id the cycle really uses: every order a polling cycle
\* hands to onOrder satisfies orderBelongsToVendor for config.vendorId.trim()
\* and carries evidence naming that vendor, whichever request produced it; an
\* order whose only evidence names another vendor is never handed over.
C1_DispatchedOrdersBelongToTrimmedVendor ==
  lastBatch.done =>
    \A i \in 1..Len(lastBatch.invoked) :
      /\ orderBelongsToVendor(lastBatch.invoked[i], Str(Trim(lastBatch.vendorId)))
      /\ Evidence(lastBatch.invoked[i], Trim(lastBatch.vendorId))
      /\ lastBatch.invoked[i] # OrderC

\* C1 as stated: the dispatched orders satisfy orderBelongsToVendor for
\* config.vendorId itself
C1_DispatchedOrdersBelongToConfigVendor ==
  lastBatch.done =>
    \A i \in 1..Len(lastBatch.invoked) :
      orderBelongsToVendor(lastBatch.invoked[i], Str(lastBatch.vendorId))

\* a cycle fetched the other vendor's order next to one of the vendor's own
\* and dispatched
C1_Witness ==
  /\ lastBatch.done
  /\ lastBatch.invoked # << >>
  /\ \E i \in 1..Len(lastBatch.fetched) : lastBatch.fetched[i] = OrderC

\* C2 as stated: between two loads or prunings of the ledger, onOrder is
\* invoked at most once for any order id
C2_AtMostOneCallPerId == \A id \in OrderIds : calls[id] <= 1

\* C4: with a vendor id configured, a start that follows a start leaves
\* exactly one armed timer, the one intervalId names; the handle of the first
\* timer is no longer armed; and a running listener has one timer, so an
\* interval starts one cycle
C4_RestartLeavesOneTimer ==
  [][Configured =>
       /\ isListening' => Cardinality(timers') = 1 /\ TimerIds(timers') = {intervalId'}
       /\ (isListening /\ isListening' /\ intervalId' # intervalId) =>
            intervalId \notin TimerIds(timers')]_vars

\* the listener was started while it was running: the handle differs from
\* the one a start from rest gets
C4_Witness ==
  /\ Configured
  /\ isListening
  /\ intervalId = 2
  /\ Cardinality(timers) = 1

\* C6 as stated: onOrder is invoked for every new order of the batch,
\* whatever the handler did for the orders before it
C6_WholeBatchDispatched == lastBatch.done => lastBatch.invoked = lastBatch.newOrders

\* C11 as stated: a batch leaves the id of every order it handed to onOrder
\* in the ledger, whatever the handler did, and an id leaves the ledger only
\* when a batch prunes it
C11_DispatchedIdStaysInLedger ==
  [][/\ (lastBatch'.done /\ ~lastBatch'.pruned) =>
          \A i \in 1..Len(lastBatch'.invoked) :
            lastBatch'.invoked[i].id \in Range(processedOrders'.ids)
     /\ \A id \in Range(processedOrders.ids) :
          id \in Range(processedOrders'.ids) \/ lastBatch'.pruned]_vars

\* C12 as stated: stopOrderListener called on a stopped listener arms and
\* cancels no timer, leaves the ledger in memory and the persisted id list as
\* they are, and the listener stays stopped
C12_StopWhenStoppedIsNoOp ==
  [][(~isListening /\ stopOrderListener) =>
       /\ timers' = timers
       /\ intervalId' = intervalId
       /\ processedOrders' = processedOrders
       /\ stateFile'.orders = stateFile.orders
       /\ ~isListening']_vars

\* C13: startOrderListener with no vendor id in its config stops a running
\* listener, starts no cycle and awaits the resolver, once; when the resolver
\* answers with the empty string the call throws, and it leaves the listener
\* as it was while the call waited: stopped, no timer armed, no cycle started,
\* ledger and file untouched
C13_FailedDetectionLeavesStopped ==
  [][/\ startOrderListenerDetect =>
          /\ resolving' = resolving + 1
          /\ lastStart'.result = "awaits"
          /\ ~isListening'
          /\ intervalId' = 0
          /\ timers' \subseteq timers
          /\ cycles' = cycles
     /\ startOrderListenerResume(<< >>) =>
          /\ resolving' = resolving - 1
          /\ lastStart'.result = "throws"
          /\ isListening' = isListening
          /\ intervalId' = intervalId
          /\ timers' = timers
          /\ cycles' = cycles
          /\ processedOrders' = processedOrders
          /\ stateFile' = stateFile]_vars

\* a start without a vendor id has just thrown, the resolver having found
\* none: the listener is stopped, with no timer and no cycle
C13_Witness ==
  /\ ~Configured
  /\ lastStart = Started("startOrderListener", "throws")
  /\ resolving = 0
  /\ ~isListening
  /\ intervalId = 0
  /\ timers = {}
  /\ cycles = EmptyBag

\* C16: without a vendor id (unset, empty or blank) startMonitoringImproved
\* returns false and starts nothing; a tick whose config has a blank vendor
\* id issues no request and touches no ledger; no cycle in flight and no
\* finished batch has a blank vendor id; and getAllOrdersAndFilter yields no
\* orders for a blank vendor id, whatever the store would answer
C16_NoVendorIdNoOrders ==
  [][/\ (Blank(config.vendorId) /\ startMonitoringImproved) =>
          /\ lastStart'.result = "false"
          /\ isListening' = isListening
          /\ intervalId' = intervalId
          /\ timers' = timers
          /\ resolving' = resolving
          /\ cycles' = cycles
          /\ processedOrders' = processedOrders
          /\ stateFile' = stateFile
     /\ \A t \in timers :
          (Blank(t.vendorId) /\ Tick(t)) =>
            (cycles' = cycles /\ processedOrders' = processedOrders)
     /\ \A c \in BagToSet(cycles') : ~Blank(c.vendorId)
     /\ lastBatch'.done => ~Blank(lastBatch'.vendorId)
     /\ \A r \in Responses, v \in {<< >>, <<" ">>} :
          getAllOrdersAndFilter(r, v) = << >>]_vars

\* a listener started through a blank answer of the resolver ran its first
\* checkForNewOrders and issued no request, and startMonitoringImproved has
\* just refused to start for want of a vendor id
C16_Witness ==
  /\ Blank(config.vendorId)
  /\ lastStart = Started("startMonitoringImproved", "false")
  /\ isListening
  /\ \E t \in timers : Blank(t.vendorId)
  /\ cycles = EmptyBag
  /\ processedOrders = Ledger(<< >>)

(***************************************************************************)
(* Properties of the fetch chain, against a store with fixed answers       *)
(***************************************************************************)
Vendors == {OrderA, OrderB}
InLedger(id) == id \in Range(processedOrders.ids)
Listed(o) == remote.all.ok /\ \E i \in 1..Len(remote.all.data) : remote.all.data[i] = o

\* what the third attempt of getWooCommerceOrders makes of the unfiltered list
Narrowed == NarrowFilter(remote.all.data, config.vendorId)

\* every request before the fetch-all-and-filter comes back empty or fails,
\* and the Dokan-meta filter of the third attempt keeps order o or nothing
EarlierYieldNothingBut(o) ==
  /\ Got(remote.direct) # "orders"
  /\ Got(remote.metaq) # "orders"
  /\ Got(remote.dokan) # "orders"
  /\ \/ Narrowed.thrown
     \/ Narrowed.orders = << >>
     \/ \E i \in 1..Len(Narrowed.orders) : Narrowed.orders[i] = o

\* C3, with the condition the chain needs: while the listener runs, a
\* vendor's order that the unfiltered endpoint lists and the ledger lacks is
\* eventually dispatched (or the listener is stopped), provided every earlier
\* request yields nothing but that order
C3_ListedOrderEventuallyDispatched ==
  \A o \in Vendors :
    (isListening /\ Listed(o) /\ EarlierYieldNothingBut(o) /\ ~InLedger(o.id))
      ~> (InLedger(o.id) \/ ~isListening)

\* C3 as stated: whatever the earlier requests return
C3_DispatchedWhateverEarlierReturn ==
  \A o \in Vendors :
    (isListening /\ Listed(o) /\ ~InLedger(o.id)) ~> (InLedger(o.id) \/ ~isListening)

\* an order only the fetch-all-and-filter finds was dispatched by a cycle
\* whose earlier requests all came back empty or failed
C3_Witness ==
  /\ lastBatch.done
  /\ EarlierYieldNothingBut(OrderB)
  /\ lastBatch.asked[Len(lastBatch.asked)] = "all"
  /\ Len(lastBatch.asked) > 3
  /\ \E i \in 1..Len(lastBatch.invoked) : lastBatch.invoked[i] = OrderB

IsPrefix(p, q) == Len(p) <= Len(q) /\ SubSeq(q, 1, Len(p)) = p

\* the orders in which a cycle may issue its requests
RequestOrders ==
  {<<"direct", "metaq", "all", "dokan", "metaq", "all">>,
   <<"direct", "metaq", "all", "dokan", "all">>,
   <<"direct", "metaq", "all", "all">>}

ThirdAttemptEmpty ==
  remote.all.ok /\ (remote.all.data = << >> \/ (~Narrowed.thrown /\ Narrowed.orders = << >>))

ThirdAttemptFound ==
  remote.all.ok /\ remote.all.data # << >> /\ ~Narrowed.thrown /\ Narrowed.orders # << >>
ThirdAttemptThrows == ~remote.all.ok \/ (remote.all.data # << >> /\ Narrowed.thrown)

FirstTwoEmpty == Got(remote.direct) # "orders" /\ Got(remote.metaq) # "orders"
LastAsked == lastBatch.asked[Len(lastBatch.asked)]
FetchAllAsked == Len(lastBatch.asked) > 3 /\ LastAsked = "all"

\* C26: a cycle ends its requests at the first one that yields orders, and
\* that list is its fetch result; the Dokan endpoint is asked only after
\* getWooCommerceOrders returned nothing; getAllOrdersAndFilter is asked
\* after getWooCommerceOrders threw, the Dokan endpoint then never being
\* asked, or after the Dokan strategy returned nothing or threw
C26_ShortCircuit ==
  lastBatch.done =>
    /\ Got(remote.direct) = "orders" =>
         (lastBatch.asked = <<"direct">> /\ lastBatch.fetched = remote.direct.data)
    /\ (Got(remote.direct) # "orders" /\ Got(remote.metaq) = "orders") =>
         (lastBatch.asked = <<"direct", "metaq">> /\ lastBatch.fetched = remote.metaq.data)
    /\ (FirstTwoEmpty /\ ThirdAttemptFound) =>
         (lastBatch.asked = <<"direct", "metaq", "all">>
            /\ lastBatch.fetched = Narrowed.orders)
    /\ (FirstTwoEmpty /\ ThirdAttemptEmpty /\ Got(remote.dokan) = "orders") =>
         (lastBatch.asked = <<"direct", "metaq", "all", "dokan">>
            /\ lastBatch.fetched = remote.dokan.data)
    /\ (FirstTwoEmpty /\ ThirdAttemptThrows) =>
         lastBatch.asked = <<"direct", "metaq", "all", "all">>
    /\ "dokan" \in Range(lastBatch.asked) => (FirstTwoEmpty /\ ThirdAttemptEmpty)
    /\ FetchAllAsked =>
         /\ FirstTwoEmpty
         /\ ThirdAttemptThrows \/ (ThirdAttemptEmpty /\ Got(remote.dokan) # "orders")
         /\ lastBatch.fetched = getAllOrdersAndFilter(remote.all, Trim(lastBatch.vendorId))

\* C26 as stated: the requests end at the first strategy that returns
\* orders, and a later strategy is requested only after every earlier one
\* returned empty or threw, so getAllOrdersAndFilter only after the Dokan
\* strategy was tried
C26_LaterOnlyAfterEveryEarlier ==
  lastBatch.done =>
    /\ Got(remote.direct) = "orders" =>
         (lastBatch.asked = <<"direct">> /\ lastBatch.fetched = remote.direct.data)
    /\ "dokan" \in Range(lastBatch.asked) => (FirstTwoEmpty /\ ~ThirdAttemptFound)
    /\ FetchAllAsked => "dokan" \in Range(lastBatch.asked)

\* the first request returned orders while the Dokan endpoint had orders
\* too: the cycle asked nothing else
C26_Witness ==
  /\ lastBatch.done
  /\ lastBatch.asked = <<"direct">>
  /\ lastBatch.fetched # << >>
  /\ lastBatch.fetched = remote.direct.data
  /\ Got(remote.dokan) = "orders"

(***************************************************************************)
(* Properties of a cycle against a store that misbehaves                   *)
(***************************************************************************)
AllRequestsFail ==
  \A ep \in Endpoints : ~remote[ep].ok

\* C14: a cycle always ends with its promise resolved, whether its requests
\* failed, a filter threw on a malformed order or the handler threw; ending,
\* it leaves isListening, intervalId and the armed timers as they are, and a
\* cycle that ended on an error before any dispatch leaves ledger and file
\* as they are; a running listener has its timer armed, so the next cycle is
\* started as after any other cycle
C14_CycleErrorsStayInside ==
  [][/\ lastBatch'.done =>
          /\ lastBatch'.settled = "resolves"
          /\ isListening' = isListening
          /\ intervalId' = intervalId
          /\ timers' = timers
          /\ BagCardinality(cycles') = BagCardinality(cycles) - 1
          /\ (lastBatch'.invoked = << >> /\ (lastBatch'.thrown \/ lastBatch'.fetched = << >>))
               => (processedOrders' = processedOrders /\ stateFile' = stateFile)
     /\ isListening' => \E t \in timers' : t.id = intervalId']_vars

\* the batch verifier threw on a null order while the listener was running:
\* nothing was dispatched and the timer is still armed
C14_Witness ==
  /\ lastBatch.done
  /\ lastBatch.thrown
  /\ lastBatch.invoked = << >>
  /\ \E i \in 1..Len(lastBatch.fetched) : lastBatch.fetched[i].isNull
  /\ isListening
  /\ \E t \in timers : t.id = intervalId

AllRequestsEmpty ==
  \A ep \in Endpoints : Got(remote[ep]) = "empty"

\* C15, with what the code does on failure: the fetch of a cycle never
\* reports a failure to the batch; when every request fails, the last one
\* being the fetch-all-and-filter, its outcome is the empty list, the same
\* outcome as when every request succeeds with an empty list, and in both
\* cases the batch dispatches and saves nothing
C15_FetchNeverFails ==
  lastBatch.done =>
    /\ ~lastBatch.failed
    /\ AllRequestsFail =>
         /\ lastBatch.fetched = << >>
         /\ lastBatch.asked = <<"direct", "metaq", "all", "all">>
    /\ AllRequestsEmpty => lastBatch.fetched = << >>
    /\ lastBatch.fetched = << >> =>
         (lastBatch.invoked = << >> /\ ~lastBatch.saved /\ ~lastBatch.thrown)

\* C15 as stated: the fetch reports a failure exactly when every request of
\* the cycle failed
C15_FailureExactlyWhenAllFail ==
  lastBatch.done => (lastBatch.failed <=> AllRequestsFail)

\* a cycle all of whose requests failed has ended with the empty list
C15_Witness ==
  /\ lastBatch.done
  /\ AllRequestsFail
  /\ lastBatch.asked = <<"direct", "metaq", "all", "all">>
  /\ lastBatch.fetched = << >>
  /\ ~lastBatch.failed

(***************************************************************************)
(* Properties of the ledger across sessions and of its pruning             *)
(***************************************************************************)
\* C5, up to pruning: a start puts every id of the persisted file into the
\* ledger; until the next start such an id leaves the ledger only when a
\* batch prunes it, and while it is there no cycle hands an order with that
\* id to onOrder; a stop persists the whole ledger, so an id dispatched in
\* one session is loaded by the next
C5_LoadedIdsSuppressedUntilPruned ==
  [][/\ loaded' # loaded => loaded' \subseteq Range(processedOrders'.ids)
     /\ (loaded' = loaded /\ processedOrders' # processedOrders) =>
          \/ (loaded \cap Range(processedOrders.ids)) \subseteq Range(processedOrders'.ids)
          \/ lastBatch'.pruned
     /\ lastBatch'.done =>
          \A i \in 1..Len(lastBatch'.invoked) :
            ~(lastBatch'.invoked[i].id \in loaded /\ InLedger(lastBatch'.invoked[i].id))
     /\ (isListening /\ ~isListening' /\ processedOrders.defined) =>
          stateFile' = JsonFile(processedOrders.ids)]_vars

\* C5 as stated: no cycle of a session dispatches an order whose id the
\* persisted file held when the session was started
C5_LoadedIdsNeverDispatched ==
  lastBatch.done =>
    \A i \in 1..Len(lastBatch.invoked) : lastBatch.invoked[i].id \notin loaded

\* an order dispatched in an earlier session was fetched again after stop
\* and start, and was not dispatched
C5_Witness ==
  /\ lastBatch.done
  /\ OrderB.id \in loaded
  /\ \E i \in 1..Len(lastBatch.fetched) : lastBatch.fetched[i] = OrderB
  /\ \A i \in 1..Len(lastBatch.invoked) : lastBatch.invoked[i] # OrderB

\* C10 as stated: a batch whose additions bring the ledger above
\* PruneThreshold ids leaves exactly the PruneKeep newest ids, the last of
\* them the id added last, and the file holds the same ids
C10_PrunedToNewest ==
  (lastBatch.done /\ lastBatch.grown > PruneThreshold) =>
    /\ Len(processedOrders.ids) = PruneKeep
    /\ processedOrders.ids[PruneKeep] = lastBatch.invoked[Len(lastBatch.invoked)].id
    /\ stateFile = JsonFile(processedOrders.ids)

(***************************************************************************)
(* Properties of the ownership verifier                                    *)
(***************************************************************************)
Returned == verifier.phase = "returned"

HeadMalformed(order) ==
  /\ order.meta_data.isArray
  /\ order.meta_data.list # << >>
  /\ Head(order.meta_data.list).isNull

NoNullEntry(md) == md.isArray => \A i \in 1..Len(md.list) : ~md.list[i].isNull

WellFormed(order) ==
  /\ ~order.isNull
  /\ NoNullEntry(order.meta_data)
  /\ order.line_items.isArray =>
       \A i \in 1..Len(order.line_items.list) :
         /\ ~order.line_items.list[i].isNull
         /\ NoNullEntry(order.line_items.list[i].meta_data)

\* C9, with the truthiness the code asks for: for a well-formed order the
\* result is true exactly when the vendorId is truthy and some listed meta
\* entry, line item or top-level field holds a truthy value whose string
\* form equals the vendorId's; 42 and "42" give the same result
C9_TrueExactlyOnTruthyEvidence ==
  (Returned /\ WellFormed(verifier.order)) =>
    /\ verifier.result = "true" <=>
         (Truthy(verifier.vendorId)
            /\ Evidence(verifier.order, toString(verifier.vendorId)))
    /\ verifier.vendorId \in {Num(42), Str(FortyTwo)} =>
         /\ verifier.result = OwnershipOutcome(verifier.order, Num(42))
         /\ verifier.result = OwnershipOutcome(verifier.order, Str(FortyTwo))

\* equality of the string forms alone
SameString(v, vendorId) == v.t # "null" /\ toString(v) = toString(vendorId)

NamedBy(md, keys, vendorId) ==
  md.isArray /\ \E i \in 1..Len(md.list) :
    md.list[i].key \in keys /\ SameString(md.list[i].value, vendorId)

\* C9 as stated, for a vendorId that is neither null nor empty: true exactly
\* when a listed value equals the vendorId as strings
C9_TrueExactlyOnEqualStrings ==
  (/\ Returned
   /\ WellFormed(verifier.order)
   /\ verifier.vendorId \notin {Null, Str(<< >>)}) =>
    (verifier.result = "true" <=>
       \/ NamedBy(verifier.order.meta_data, OrderMetaKeys, verifier.vendorId)
       \/ /\ verifier.order.line_items.isArray
          /\ \E i \in 1..Len(verifier.order.line_items.list) :
               \/ NamedBy(verifier.order.line_items.list[i].meta_data, ItemMetaKeys,
                          verifier.vendorId)
               \/ SameString(verifier.order.line_items.list[i].vendor_id,
                             verifier.vendorId)
       \/ \E f \in PossibleFieldSet :
            SameString(verifier.order.fields[f], verifier.vendorId))

\* the number 42 was matched by the string "42" of a top-level field
C9_Witness ==
  /\ Returned
  /\ verifier.vendorId = Num(42)
  /\ verifier.order.meta_data = NoArray
  /\ verifier.order.line_items = NoArray
  /\ verifier.order.fields["seller_id"] = Str(FortyTwo)
  /\ verifier.result = "true"

\* C18 as stated: every order handed to onOrder has status 'processing',
\* whatever the store returned
C18_OnlyProcessingDispatched ==
  lastBatch.done =>
    \A i \in 1..Len(lastBatch.invoked) : lastBatch.invoked[i].status = "processing"

\* C20 as stated: polling cycles never overlap; when the timer begins a
\* cycle, the cycle before it has finished, its awaited requests included
C20_CyclesNeverOverlap == [][\A t \in timers : Tick(t) => cycles = EmptyBag]_vars

(***************************************************************************)
(* Properties of the timer                                                 *)
(***************************************************************************)
\* C21 as stated: at most one interval timer armed by the listener is
\* active, also when two calls of startOrderListener overlap at the resolver
C21_AtMostOneTimer == Cardinality(timers) <= 1

\* C22 as stated: from the return of stopOrderListener to the next call of
\* start no timer begins a polling cycle
C22_NoTickWhileStopped ==
  [][\A t \in timers : Tick(t) => (isListening \/ resolving > 0)]_vars

\* C23 as stated: while the listener is stopped and no start has been
\* called, no step invokes onOrder and no step changes the ledger, the steps
\* of a cycle that was in flight when stop was called included
C23_QuietWhileStopped ==
  [][(~isListening /\ ~isListening' /\ resolving = 0 /\ resolving' = 0) =>
       /\ processedOrders' = processedOrders
       /\ ~(lastBatch'.done /\ lastBatch'.invoked # << >>)]_vars

C25_FileEqualsLedgerAfterDispatch ==
  (lastBatch.done /\ lastBatch.invoked # << >>) =>
    (stateFile.kind = "json" /\ stateFile.orders = processedOrders.ids)

(***************************************************************************)
(* Properties of cycles in flight at once                                  *)
(***************************************************************************)
\* C27 as stated: of two cycles in flight at once that fetch the same new
\* order only one hands it to onOrder; a cycle never dispatches an id that
\* another cycle dispatched while this one was in flight
C27_OnlyOneCycleDispatches ==
  lastBatch.done =>
    \A i \in 1..Len(lastBatch.invoked) : lastBatch.invoked[i].id \notin lastBatch.seen

\* C28 as stated: one cycle hands an order id to onOrder at most once, also
\* when the fetched list holds the id more than once
C28_OncePerIdInOneCycle ==
  lastBatch.done => \A id \in OrderIds : CountIn(lastBatch.invoked, id) <= 1

(***************************************************************************)
(* Properties of the timer's period                                        *)
(***************************************************************************)
PositiveNumber(v) == v.t = "num" /\ v.n > 0

Unset(v) == v.t \in {"undef", "null"}

NotPositiveNumber(v) == v.t = "num" /\ v.n <= 0

\* C29: the repeating timer's period is config.checkInterval seconds when
\* checkInterval is a positive number, and 60 seconds when checkInterval is
\* unset, zero or negative
C29_PeriodIsCheckInterval ==
  \A t \in timers :
    /\ PositiveNumber(config.checkInterval) =>
         t.period = config.checkInterval.n * MsPerSecond
    /\ (Unset(config.checkInterval) \/ NotPositiveNumber(config.checkInterval)) =>
         t.period = DefaultCheckInterval * MsPerSecond

\* the part of C29 the code keeps: the period of a positive number, of an
\* unset checkInterval and of zero
C29_PeriodUnlessNegative ==
  \A t \in timers :
    /\ PositiveNumber(config.checkInterval) =>
         t.period = config.checkInterval.n * MsPerSecond
    /\ (Unset(config.checkInterval) \/ config.checkInterval = Num(0)) =>
         t.period = DefaultCheckInterval * MsPerSecond

(***************************************************************************)
(* Properties of the listener's flag and its timer                         *)
(***************************************************************************)
\* C35: whenever no call of startOrderListener is under way, isListening
\* is true exactly when intervalId holds a timer: a stopped listener has no
\* armed timer at all, and a running one has the timer of intervalId armed
C35_ListeningIffTimerArmed ==
  resolving = 0 =>
    /\ isListening <=> intervalId # 0
    /\ isListening => \E t \in timers : t.id = intervalId
    /\ ~isListening => timers = {}

(***************************************************************************)
(* Properties of the batch verifier                                        *)
(***************************************************************************)
\* what C33 says a call returns: nothing when orders is no array or the
\* vendor id is empty, otherwise the orders that belong to the vendor, in
\* their order
OwnedOf(arg, vendorId) ==
  IF ~arg.isArray \/ ~Truthy(vendorId) THEN << >> ELSE FilterOwned(arg.list, vendorId)

\* C33: verifyOrdersBelongToVendor(orders, vendorId) returns exactly the
\* orders for which orderBelongsToVendor(order, vendorId) is true, in their
\* original relative order; it returns the empty list when orders is not an
\* array or vendorId is empty; and filtering its own output returns the same
\* list
C33_ReturnsExactlyTheOwned ==
  /\ verifier.phase # "called" =>
       /\ ~verifier.result.thrown
       /\ verifier.result.orders = OwnedOf(verifier.orders, verifier.vendorId)
  /\ verifier.phase = "filtered again" => verifier.again = verifier.result

\* the same for the calls whose list has no null entry
C33_ReturnsTheOwnedUnlessNullListed ==
  /\ (/\ verifier.phase # "called"
      /\ \A i \in 1..Len(verifier.orders.list) : ~verifier.orders.list[i].isNull) =>
       /\ ~verifier.result.thrown
       /\ verifier.result.orders = OwnedOf(verifier.orders, verifier.vendorId)
  /\ verifier.phase = "filtered again" => verifier.again = verifier.result

(***************************************************************************)
(* Properties of the caller's config                                       *)
(***************************************************************************)
\* C32 as stated: startOrderListener and the polling cycle leave every
\* field of the caller's config unchanged, vendorId included, also when the
\* vendor id is auto-detected at start
C32_ConfigNeverWritten == [][config' = config]_vars

\* C32, but for the vendor id: no step writes checkInterval or the
\* credentials; vendorId is written by no cycle, no stop and no start that
\* found a vendor id in the config, and by a start that found none exactly
\* when the resolver answered with an id: that id is then in config.vendorId
\* and the listener runs with it
C32_OnlyDetectedVendorIdWritten ==
  [][/\ config'.checkInterval = config.checkInterval
     /\ config'.credentials = config.credentials
     /\ config'.vendorId # config.vendorId =>
          /\ Blank(config.vendorId)
          /\ resolving' = resolving - 1
          /\ lastStart' = Started("startOrderListener", "true")
     /\ (resolving' = resolving - 1 /\ lastStart'.result = "true") =>
          /\ AutoDetected(config'.vendorId)
          /\ \E t \in timers' : t.id = intervalId' /\ t.vendorId = config'.vendorId]_vars

\* a listener runs on a vendor id that its start wrote into a config which
\* had none
C32_Witness ==
  /\ config.vendorId = VendorSeven
  /\ lastStart = Started("startOrderListener", "true")
  /\ isListening
  /\ \E t \in timers : t.vendorId = VendorSeven

(***************************************************************************)
(* Properties of the load at a start                                       *)
(***************************************************************************)
\* C31: loadProcessedOrdersState never throws: when the ledger file is
\* missing, unreadable or not valid JSON the ledger in memory becomes the
\* empty set, and the start still proceeds to Running: it returns, the
\* listener is on and its timer is armed
C31_LoadNeverThrows ==
  [][startOrderListener =>
       /\ lastStart'.result = "true"
       /\ isListening'
       /\ \E t \in timers' : t.id = intervalId'
       /\ processedOrders'.defined
       /\ stateFile'.kind # "json" => processedOrders'.ids = << >>]_vars

\* a listener is running that was started over a file that is not JSON
C31_Witness ==
  /\ stateFile = CorruptFile
  /\ lastStart = Started("startOrderListener", "true")
  /\ isListening
  /\ timers # {}
  /\ processedOrders = Ledger(<< >>)

(***************************************************************************)
(* Properties of a listener without credentials                            *)
(***************************************************************************)
\* C30: when apiUrl, username or password is missing from the config, the
\* listener start and its polling cycle fail fast and attempt no remote
\* call: the listener is never on and no cycle ever awaits a request
C30_NoRequestWithoutCredentials ==
  IncompleteCredentials(config.credentials) =>
    ~isListening /\ cycles = EmptyBag

\* the guard that is there: without credentials a cycle never sends the
\* request of getAllOrdersAndFilter
C30_FetchAllGuarded ==
  IncompleteCredentials(config.credentials) => \A c \in BagToSet(cycles) : c.pc # "all"

(***************************************************************************)
(* Properties of the vendor-id resolver                                    *)
(***************************************************************************)
CredentialsComplete(cfg) ==
  ~cfg.isNull /\ cfg.apiUrl /\ cfg.username # << >> /\ cfg.password

EveryLookupFailed == \A i \in 1..Len(resolver.heard) : ~resolver.heard[i].ok

\* C17: getVendorIdFromCredentials never throws, for a null config, for
\* incomplete credentials and for any answers of the store, malformed ones
\* included; with incomplete credentials, and when every lookup fails, it
\* returns the empty string
C17_ResolverNeverThrows ==
  /\ ~resolver.result.thrown
  /\ resolver.pc = "returned" =>
       /\ ~CredentialsComplete(resolver.config) =>
            (resolver.result.value = << >> /\ resolver.heard = << >>)
       /\ EveryLookupFailed => resolver.result.value = << >>

\* the three lookups of a call with complete credentials all failed, and
\* the call returned the empty string
C17_Witness ==
  /\ resolver.pc = "returned"
  /\ CredentialsComplete(resolver.config)
  /\ Len(resolver.heard) = 3
  /\ EveryLookupFailed
  /\ resolver.result = NoResult

\* the vendor-id values of a sample of orders: the values that the entries
\* of the orders' meta_data have under a vendor key
SampleVendorIds(orders) ==
  UNION {{toString(o.meta_data.list[i].value) :
            i \in {j \in 1..Len(o.meta_data.list) :
                     /\ ~o.meta_data.list[j].isNull
                     /\ o.meta_data.list[j].key \in ResolverMetaKeys
                     /\ o.meta_data.list[j].value.t # "null"}} :
         o \in {orders[k] : k \in {n \in 1..Len(orders) :
                                     ~orders[n].isNull /\ orders[n].meta_data.isArray}}}

\* users/me gave the id of a user
GaveUser(r) == r.ok /\ Truthy(r.id)

\* the call has returned from its last step, the scan of the recent orders
ReturnedFromScan ==
  /\ resolver.pc = "returned"
  /\ Len(resolver.heard) = 3
  /\ ~GaveUser(resolver.heard[2])

\* the last step is reached only when the store list matched no vendor and
\* users/me gave no user
ScanOnlyAfterBothLookups ==
  (resolver.pc = "orders" \/ ReturnedFromScan) =>
    /\ StoresTry(resolver.config, resolver.heard[1]).kind # "return"
    /\ ~GaveUser(resolver.heard[2])

\* C34: in the resolver's last step exactly one distinct vendor-id value
\* across the sample is returned as the vendor id, while two or more
\* distinct values yield the empty string; this step is reached only when
\* neither the store-list match nor the current-user lookup produced an id
C34_OneDistinctIdIsReturned ==
  /\ ScanOnlyAfterBothLookups
  /\ (ReturnedFromScan /\ resolver.heard[3].ok) =>
       LET found == SampleVendorIds(resolver.heard[3].list) IN
         /\ Cardinality(found) = 1 => resolver.result.value \in found
         /\ Cardinality(found) > 1 => resolver.result.value = << >>

\* the same for the samples the scan gets through: no null order, no null
\* entry, no vendor key without a value
C34_OneDistinctIdOfCleanSample ==
  /\ ScanOnlyAfterBothLookups
  /\ (/\ ReturnedFromScan
      /\ resolver.heard[3].ok
      /\ \A i \in 1..Len(resolver.heard[3].list) :
           ~MetaScanThrows(resolver.heard[3].list[i])) =>
       LET found == SampleVendorIds(resolver.heard[3].list) IN
         /\ Cardinality(found) = 1 => resolver.result.value \in found
         /\ Cardinality(found) > 1 => resolver.result.value = << >>

(***************************************************************************)
(* Properties of the ledger file                                           *)
(***************************************************************************)
\* C19 as stated: a load after a save gives the ledger that was saved, the
\* same ids in the same order, whatever it held; and a save after a load
\* writes the id list the file already had
C19_RoundTripIsIdentity ==
  /\ roundTrip.phase \in {"loaded", "resaved"} =>
       roundTrip.ledger.ids = roundTrip.saved.ids
  /\ roundTrip.phase = "resaved" =>
       JSONparse(roundTrip.file.text).orders = JSONparse(roundTrip.written.text).orders

\* ids that JSON can write: numbers, strings and null
JsonIds(ledger) == \A i \in 1..Len(ledger.ids) : ledger.ids[i].t # "undef"

\* the round trip of a ledger without an undefined id is the identity
RoundTripOfJsonIds ==
  /\ (roundTrip.phase \in {"loaded", "resaved"} /\ JsonIds(roundTrip.saved)) =>
       roundTrip.ledger.ids = roundTrip.saved.ids
  /\ (roundTrip.phase = "resaved" /\ JsonIds(roundTrip.saved)) =>
       roundTrip.file = roundTrip.written

\* C38: when restartMonitoring has returned true, isRunning is set and the
\* listener's timer is armed; and when its startMonitoringImproved returned
\* false, restartMonitoring has returned false
C38_RestartTrueOnlyIfRunning ==
  app.last.call = "restartMonitoring" =>
    /\ app.last.result = "true" =>
          app.isRunning /\ \E t \in timers : t.id = intervalId
    /\ lastStart = Started("startMonitoringImproved", "false") =>
          app.last.result = "false"

\* what restartMonitoring returns is whether monitoring was running when it
\* was called
C38_RestartReturnsWasRunning ==
  app.last.call = "restartMonitoring" =>
    (app.last.result = "true" <=> app.last.wasRunning)

(***************************************************************************)
(* getOrderDetails called on its own                                       *)
(***************************************************************************)
\* a getOrderDetails that returns whatever order the store sent
DetailsOwnedAlways(data, vendorId) == TRUE

\* !(config.vendorId && !orderBelongsToVendor(response.data, config.vendorId))
DetailsOwned(data, vendorId) == ~Truthy(vendorId) \/ orderBelongsToVendor(data, vendorId)

\* an order object without an id
OrderNoId ==
  Order(0, "processing", Array(<<Meta("_dokan_vendor_id", Str(VendorSeven))>>), NoArray,
        NoFields)

\* response.data: nothing, an object without id, orders of vendor 7, an
\* order of vendor 9, an order with a malformed meta entry
DetailOrders == Catalogue \cup {NullOrder, OrderNoId, OrderNullMeta}

\* axios.get rejects, or resolves with a body
DetailResponses == {NoResponse} \cup {[ok |-> TRUE, data |-> o] : o \in DetailOrders}

DetailCredentials == {NullCredentials} \cup ListenerCredentials

DetailVendorIds ==
  {Null, Str(<< >>), Str(VendorSeven), Num(7), Str(VendorNine), Str(<<" ">> \o VendorSeven)}

DetailOrderIds == {Undef, Null, Num(0), Str(<< >>), Num(2), Str(<<"2">>)}

InitDetails ==
  /\ remote = AnyRemote
  /\ config \in {[vendorId |-> VendorSeven, checkInterval |-> Undef,
                 credentials |-> CompleteCredentials, printerId |-> TRUE]}
  /\ isListening = FALSE
  /\ intervalId = 0
  /\ timers = {}
  /\ resolving = 0
  /\ processedOrders = Undefined
  /\ stateFile = MissingFile
  /\ cycles = EmptyBag
  /\ lastBatch = NoBatch
  /\ calls = NoCalls
  /\ loaded = {}
  /\ lastStart = NoStart
  /\ verifier = IdleVerifier
  /\ resolver = IdleResolver
  /\ roundTrip = IdleRoundTrip
  /\ app = IdleApp
  /\ details \in {[phase |-> "called", credentials |-> c, vendorId |-> v, orderId |-> i,
                    requests |-> 0, response |-> NoResponse, data |-> NullOrder] :
                     c \in DetailCredentials, v \in DetailVendorIds, i \in DetailOrderIds}

\* getOrderDetails(config, orderId) up to its await of axios.get: it throws
\* on an incomplete config and on a missing order id, otherwise it sends the
\* request
getOrderDetails ==
  /\ details.phase = "called"
  /\ details' = IF IncompleteCredentials(details.credentials) \/ ~Truthy(details.orderId)
                THEN [details EXCEPT !.phase = "thrown"]
                ELSE [details EXCEPT !.phase = "awaiting", !.requests = @ + 1]
  /\ UNCHANGED <<remote, config, isListening, intervalId, timers, resolving,
                 processedOrders, stateFile, cycles, lastBatch, calls, loaded, lastStart,
                 verifier, resolver, roundTrip, app>>

\* the call resumed with the answer r: a rejected request, a body without
\* id and an order of another vendor all end in the catch block, which
\* throws the error again; otherwise response.data is returned
getOrderDetailsResume(r) ==
  /\ details.phase = "awaiting"
  /\ details' = IF /\ r.ok
                   /\ ~r.data.isNull
                   /\ Truthy(Num(r.data.id))
                   /\ DetailsOwned(r.data, details.vendorId)
                THEN [details EXCEPT !.phase = "returned", !.response = r, !.data = r.data]
                ELSE [details EXCEPT !.phase = "thrown", !.response = r]
  /\ UNCHANGED <<remote, config, isListening, intervalId, timers, resolving,
                 processedOrders, stateFile, cycles, lastBatch, calls, loaded, lastStart,
                 verifier, resolver, roundTrip, app>>

NextDetails ==
  \/ getOrderDetails
  \/ \E r \in DetailResponses : getOrderDetailsResume(r)

SpecDetails == InitDetails /\ [][NextDetails]_vars

\* C39: with a vendor id in the config, getOrderDetails returns an order
\* only if orderBelongsToVendor holds of it, and an order of which it does
\* not hold makes it throw; a call that threw returned no order data; and
\* with incomplete credentials or without an order id it throws with no
\* request sent
C39_DetailsOnlyOfOwnedOrders ==
  /\ details.phase = "returned" /\ Truthy(details.vendorId) =>
       /\ details.data = details.response.data
       /\ orderBelongsToVendor(details.data, details.vendorId)
  /\ /\ details.phase \in {"returned", "thrown"}
     /\ details.requests = 1
     /\ Truthy(details.vendorId)
     /\ ~orderBelongsToVendor(details.response.data, details.vendorId)
     => details.phase = "thrown"
  /\ details.phase = "thrown" => details.data = NullOrder
  /\ IncompleteCredentials(details.credentials) \/ ~Truthy(details.orderId) =>
       details.requests = 0 /\ details.phase \in {"called", "thrown"}

\* the store answered with an order of another vendor and the call threw
C39_Witness ==
  /\ details.phase = "thrown"
  /\ details.requests = 1
  /\ details.response.ok
  /\ details.response.data = OrderC
  /\ details.vendorId = Str(VendorSeven)
  /\ details.data = NullOrder

====
